---- MODULE Spec2Model ----
(***************************************************************************)
(* The staged transcode pipeline of av1_enc_qsv/av1_enc_qsv.py:            *)
(* file_scanner_worker, file_preparer_worker, ffmpeg_encoder_worker, the   *)
(* key handling and shutdown path of curses_main, cleanup_all_temp_files.  *)
(*                                                                         *)
(* Granularity: one action per `with ui_lock:` block or per external or    *)
(* filesystem call made outside the lock.  A read of stop_event (set once, *)
(* never cleared during a run) is folded into the lock block that follows  *)
(* it.  Items are named by the rank of their original_path, so all_files   *)
(* (kept sorted by original_path) is the ascending enumeration of a set.   *)
(* Removing a temp file is assumed to succeed, except for the paths of     *)
(* `unremovable` in the final sweep; copying to temp, starting the         *)
(* transcode process and moving the result back may fail.                  *)
(***************************************************************************)
EXTENDS Integers, Sequences, FiniteSets, TLC

\* ---- bounds of the model
\* video files under SOURCE_DIRECTORY
NumItems == 3
\* trees of up to SmallTree files run under every setting of the two delete
\* flags, larger trees with both flags off
SmallTree == 2
\* events off the nominal path the environment produces in one run (a file
\* that cannot be read or is empty, a failed probe, copy, process start or
\* move, a process that fails, overruns, leaves no output or must be killed)
MaxFaults == 1
\* cancel keys the user presses in one run
MaxCancels == 1
\* The command-channel variant: files in the tree, the largest value F6 is
\* followed to, keys pressed in a run, failures
\* of the file system, ffprobe and ffmpeg in a run
MaxJobFiles == 2
MaxJobsCap == 2
MaxKeys == 2
MaxJobFaults == 1
\* MAX_CONCURRENT_JOBS of ffmpeg/av1_enc/av1_enc.py
MAX_CONCURRENT_JOBS == 1
\* a run with a startup precondition unmet has up to BrokenSetupTree files
BrokenSetupTree == 1
\* the runs followed to their end under fairness have up to LiveTree files
LiveTree == 2
\* the largest tree: more files than NUM_FILES_TO_PREPARE + NUM_FFMPEG_WORKERS
LargeTree == 4
\* a setting of NUM_FFMPEG_WORKERS above the one in the source
MoreWorkers == 2

\* ---- program constants (av1_enc_qsv.py, "Configuration")
NUM_FILES_TO_PREPARE == 2
NUM_FFMPEG_WORKERS == 1
FFMPEG_ENCODE_TIMEOUT_SECONDS == 600

Items == 1..LargeTree

\* Python None for the optional fields of FileItem
None == <<>>
Some(v) == <<v>>

\* Results of get_video_codec_info: av1, no result, another codec
NoCodec == "None"
Codecs == {"av1", NoCodec, "h264"}
\* the same with a codec that qsv_decoder_map does not list
MixedCodecs == Codecs \cup {"vp8"}

\* qsv_decoder_map and its .get(codec)
qsv_decoder_map ==
    [h264 |-> "h264_qsv", hevc |-> "hevc_qsv", mpeg2video |-> "mpeg2_qsv",
     vp9 |-> "vp9_qsv"]
QsvDecoderAlwaysNative(c) == Some("h264_qsv")
QsvDecoder(c) ==
    IF c \in DOMAIN qsv_decoder_map THEN Some(qsv_decoder_map[c]) ELSE None

\* The input part of ffmpeg_command_list: the decoder is named only when
\* the item has one and is not flagged for CPU decode
InputOptions(cpu_decode, decoder) ==
    IF cpu_decode \/ decoder = None
    THEN <<"-hwaccel", "qsv", "-hwaccel_output_format", "qsv", "-i">>
    ELSE <<"-hwaccel", "qsv", "-qsv_device", "-c:v", decoder[1], "-i">>

\* The lists the workers and the UI use to decide that an item is finished.
TerminalStatuses == {"success", "skipped", "error", "cancelled", "deleted_zero", "deleted_error"}
SkipOnDequeue == {"cancelled", "deleted_zero", "deleted_error"}

VARIABLES
    \* configuration and environment
    numFiles,               \* number of video files under SOURCE_DIRECTORY
    delete_zeros,           \* ARGS.delete_zeros
    delete_errors,          \* ARGS.delete_errors
    missing,                \* startup precondition that does not hold:
                            \* "none", "temp" (TEMP_DIRECTORY cannot be
                            \* written), "ffprobe", "ffmpeg" (not installed)
    num_ffmpeg_workers,     \* NUM_FFMPEG_WORKERS as the run is configured
    tree_codecs,            \* what get_video_codec_info can return for the
                            \* files of the tree
    outside,                \* <<item, "source" or "encoded">>: temp paths
                            \* that do not lie in TEMP_DIRECTORY
    unremovable,            \* temp paths on which os.remove raises OSError
                            \* in the final sweep
    \* FileItem fields, per item
    status, status_message, encoded_size, input_codec,
    qsv_input_codec,        \* Some(decoder) or None
    original_size,          \* None before the scan, Some(0) for a file of
                            \* zero bytes, Some(1) for any other size
    use_cpu_decode,
    error_details,          \* "" for None, else what the text was built from
    temp_source_path,       \* TRUE when the field holds a path
    temp_encoded_path,      \* TRUE when the field holds a path
    encoding_start_time,    \* TRUE when the field holds a time
    \* the disk
    orig,                   \* content at original_path
    tsrc,                   \* content at TEMP_DIRECTORY/<id>_<filename>
    tenc,                   \* content at TEMP_DIRECTORY/<id>_<name>_av1<ext>
    \* global state of the script
    discovered,             \* discovered_files_this_scan
    all_files, pending_files_queue, preparing_files_list,
    ready_for_encode_queue, encoding_files_list, stop_event,
    \* file_scanner_worker
    scanPc,
    \* file_preparer_worker: position, file_item, codec
    prepPc, prepItem, codec,
    \* ffmpeg_encoder_worker: position, file_item, the Popen object, locals
    encPc, encItem, process, return_code, timed_out,
    app_stop_event_detected_in_poll, user_initiated_cancel_detected_in_poll,
    final_status_is_user_cancelled,
    elapsed,                \* time.time() - encoding_start_time > timeout
    ffmpeg_command_list,    \* the input options of the command, <<>> if unset
    \* curses_main: position
    uiPc,
    \* the thread inside a `with ui_lock:` block that makes a blocking call,
    \* or "none"; every other block is entered and left within one action
    ui_lock_holder,
    \* history, not program state
    cancelAt,               \* status an item had when the UI cancelled it
    cancelProc,             \* state of its transcode process at that moment
    probed,                 \* what get_video_codec_info returned for an item
    enqueues,               \* times an item was appended to pending_files_queue
    dequeues,               \* times an item was popped from pending_files_queue
    stagings,               \* times an item was appended to preparing_files_list
    \* the environment's budget, not program state
    faults,                 \* events off the nominal path so far
    cancels                 \* cancel keys pressed so far

cfgVars == <<numFiles, delete_zeros, delete_errors, missing,
             num_ffmpeg_workers, tree_codecs, outside, unremovable>>
itemVars == <<status, status_message, encoded_size, input_codec,
              qsv_input_codec, use_cpu_decode, error_details,
              temp_source_path, temp_encoded_path, encoding_start_time>>
diskVars == <<orig, tsrc, tenc>>
listVars == <<pending_files_queue, preparing_files_list,
              ready_for_encode_queue, encoding_files_list>>
scanVars == <<discovered, all_files, scanPc, original_size>>
prepVars == <<prepPc, prepItem, codec>>
encVars == <<encPc, encItem, process, return_code, timed_out,
             app_stop_event_detected_in_poll,
             user_initiated_cancel_detected_in_poll,
             final_status_is_user_cancelled, elapsed, ffmpeg_command_list>>
uiVars == <<uiPc>>
queueHist == <<enqueues, dequeues, stagings>>
histVars == <<cancelAt, cancelProc, probed, queueHist>>
envVars == <<faults, cancels>>
qsvVars == <<cfgVars, itemVars, diskVars, listVars, scanVars, prepVars, encVars,
             uiVars, histVars, envVars, stop_event, ui_lock_holder>>

\* =========================================================================
\* ---- the command-channel variant, ffmpeg/av1_enc/av1_enc.py: its state

\* files found under SOURCE_DIRECTORY, named by their rank in sorted order
JobFiles == 1..MaxJobFiles

\* the codecs QSV_DECODER_MAP has a decoder for
QSV_DECODER_MAP == {"h264", "hevc", "mpeg2video", "vc1", "vp9"}
\* what get_video_codec returns for the files of the tree
JobCodecs == {"h264", "av1", "vp8", NoCodec}

\* the statuses with is_final set, and those of them with cancelled set
FinalStatuses == {"Done", "Skipped (already AV1)", "Error", "Killed by user.",
                  "Cancelled (Executor)", "Unexpected Error"}
CancelledStatuses == {"Killed by user.", "Cancelled (Executor)"}

VARIABLES
    \* main_logic_with_curses: position and locals
    mainPc, waiting_files_paths,
    submitted_futures,      \* the file ids the dict holds futures for
    currently_running,
    current_max_jobs,       \* config_vars['current_max_jobs']
    \* shared between the threads
    command_queue, overall_shutdown_event,
    active_processes_info,  \* the file ids registered
    cancel_event,           \* per file id: the registered event is set
    future_state,           \* per file id: "none" before executor.submit,
                            \* then "pending", "running", and "done",
                            \* "raised" or "cancelled"
    file_status_display,    \* per file id: the status of its item
    ui_queue,               \* per file id: the last file_update put and not
                            \* yet taken by display_ui, or "none"
    marked_files_ids,
    \* process_file, per file id: position, locals, the ffmpeg process
    workerPc, was_cancelled, encode_successful,
    ffmpeg_process,         \* "none", "running", "exited 0", "exited 1",
                            \* "terminated" (by SIGTERM), "killed" (SIGKILL)
    temp_source_file,       \* TRUE when the file exists
    temp_av1_output_file,   \* TRUE when the file exists
    original_file,          \* content at file_path
    \* history, not program state
    killedWhileActive,      \* files a kill command found registered
    unstartedAtQuit,        \* files no worker had taken when Q was pressed
    \* the environment's budget, not program state
    keys,                   \* keys pressed so far
    jobFaults               \* failures of the file system, ffprobe and
                            \* ffmpeg so far

mainVars == <<mainPc, waiting_files_paths, submitted_futures, currently_running>>
workerVars == <<workerPc, was_cancelled, encode_successful, ffmpeg_process,
                temp_source_file, temp_av1_output_file, original_file>>
jobHist == <<killedWhileActive, unstartedAtQuit>>
jobEnv == <<keys, jobFaults>>
jobVars == <<mainVars, current_max_jobs, command_queue, overall_shutdown_event,
             active_processes_info, cancel_event, future_state,
             file_status_display, ui_queue, marked_files_ids, workerVars,
             jobHist, jobEnv>>

vars == <<qsvVars, jobVars>>

\* The command-channel variant before it is started
JobUnstarted ==
    /\ mainPc = "unstarted"
    /\ waiting_files_paths = <<>>
    /\ submitted_futures = {}
    /\ currently_running = 0
    /\ current_max_jobs = MAX_CONCURRENT_JOBS
    /\ command_queue = <<>>
    /\ overall_shutdown_event = FALSE
    /\ active_processes_info = {}
    /\ cancel_event = [f \in JobFiles |-> FALSE]
    /\ future_state = [f \in JobFiles |-> "none"]
    /\ file_status_display = [f \in JobFiles |-> "absent"]
    /\ ui_queue = [f \in JobFiles |-> "none"]
    /\ marked_files_ids = {}
    /\ workerPc = [f \in JobFiles |-> "idle"]
    /\ was_cancelled = [f \in JobFiles |-> FALSE]
    /\ encode_successful = [f \in JobFiles |-> FALSE]
    /\ ffmpeg_process = [f \in JobFiles |-> "none"]
    /\ temp_source_file = [f \in JobFiles |-> FALSE]
    /\ temp_av1_output_file = [f \in JobFiles |-> FALSE]
    /\ original_file = [f \in JobFiles |-> "absent"]
    /\ killedWhileActive = {}
    /\ unstartedAtQuit = {}
    /\ keys = 0
    /\ jobFaults = 0

\* ---- list helpers
Contains(s, x) == \E k \in 1..Len(s) : s[k] = x
Count(s, x) == Cardinality({k \in 1..Len(s) : s[k] = x})
\* list.remove / deque.remove guarded by `in`: drops the first occurrence
\* (RemoveKept: a remove that drops nothing)
RemoveKept(s, x) == s
Remove(s, x) ==
    IF ~Contains(s, x) THEN s
    ELSE LET k == CHOOSE j \in 1..Len(s) : s[j] = x /\ \A h \in 1..(j-1) : s[h] # x
         IN  SubSeq(s, 1, k-1) \o SubSeq(s, k+1, Len(s))
\* sorted(..., key=original_path) restricted to the items in S with status st
\* (SortedDescending: the same with reverse=True; SortedAnyStatus: the same
\* without the test of the status)
RECURSIVE SortedAnyStatus(_, _, _)
SortedAnyStatus(S, st, upto) ==
    IF upto = 0 THEN <<>>
    ELSE SortedAnyStatus(S, st, upto - 1) \o
         (IF upto \in S THEN <<upto>> ELSE <<>>)
RECURSIVE SortedDescending(_, _, _)
SortedDescending(S, st, upto) ==
    IF upto = 0 THEN <<>>
    ELSE (IF upto \in S /\ st[upto] = "pending" THEN <<upto>> ELSE <<>>) \o
         SortedDescending(S, st, upto - 1)
RECURSIVE SortedWith(_, _, _)
SortedWith(S, st, upto) ==
    IF upto = 0 THEN <<>>
    ELSE SortedWith(S, st, upto - 1) \o
         (IF upto \in S /\ st[upto] = "pending" THEN <<upto>> ELSE <<>>)

\* `file_item.status == "cancelled"`, the workers' cancellation check
\* (IsCancelledNever: a check that never sees the cancellation)
IsCancelledNever(i) == FALSE
IsCancelled(i) == status[i] = "cancelled"

\* The environment takes an event off the nominal path only within its budget
Charge(isFault) ==
    /\ isFault => faults < MaxFaults
    /\ faults' = IF isFault THEN faults + 1 ELSE faults

\* The state when the script starts, for a tree of up to maxFiles files and
\* NUM_FFMPEG_WORKERS set to workers
InitWith(maxFiles, workers, codecs) ==
    /\ numFiles \in 0..maxFiles
    /\ num_ffmpeg_workers = workers
    /\ tree_codecs = codecs
    /\ delete_zeros \in BOOLEAN
    /\ delete_errors \in BOOLEAN
    /\ numFiles > SmallTree => ~delete_zeros /\ ~delete_errors
    /\ missing \in {"none", "temp", "ffprobe", "ffmpeg"}
    /\ missing # "none" => numFiles <= BrokenSetupTree
    /\ outside = {}
    /\ unremovable = {}
    /\ status = [i \in Items |-> "pending"]
    /\ status_message = [i \in Items |-> ""]
    /\ encoded_size = [i \in Items |-> None]
    /\ input_codec = [i \in Items |-> NoCodec]
    /\ qsv_input_codec = [i \in Items |-> None]
    /\ use_cpu_decode = [i \in Items |-> FALSE]
    /\ error_details = [i \in Items |-> ""]
    /\ temp_source_path = [i \in Items |-> FALSE]
    /\ temp_encoded_path = [i \in Items |-> FALSE]
    /\ encoding_start_time = [i \in Items |-> FALSE]
    /\ orig = [i \in Items |-> IF i <= numFiles THEN "source" ELSE "absent"]
    /\ tsrc = [i \in Items |-> "absent"]
    /\ tenc = [i \in Items |-> "absent"]
    /\ discovered = {}
    /\ original_size = [i \in Items |-> None]
    /\ all_files = {}
    /\ pending_files_queue = <<>>
    /\ preparing_files_list = <<>>
    /\ ready_for_encode_queue = <<>>
    /\ encoding_files_list = <<>>
    /\ stop_event = FALSE
    /\ scanPc = "unstarted"
    /\ prepPc = "unstarted" /\ prepItem = 0 /\ codec = NoCodec
    /\ encPc = "unstarted" /\ encItem = 0 /\ process = "none" /\ return_code = 0
    /\ timed_out = FALSE
    /\ app_stop_event_detected_in_poll = FALSE
    /\ user_initiated_cancel_detected_in_poll = FALSE
    /\ final_status_is_user_cancelled = FALSE
    /\ elapsed = FALSE
    /\ ffmpeg_command_list = <<>>
    /\ uiPc = "startup"
    /\ ui_lock_holder = "none"
    /\ cancelAt = [i \in Items |-> "never"]
    /\ cancelProc = [i \in Items |-> "never"]
    /\ probed = [i \in Items |-> "never"]
    /\ enqueues = [i \in Items |-> 0]
    /\ dequeues = [i \in Items |-> 0]
    /\ stagings = [i \in Items |-> 0]
    /\ faults = 0
    /\ cancels = 0
    /\ JobUnstarted

\* The script as it is in the source
Init == InitWith(NumItems, NUM_FFMPEG_WORKERS, Codecs)

\* =========================================================================
\* file_scanner_worker
\* =========================================================================

\* One video file met by os.walk.  outcome: the file is kept pending, is
\* zero bytes and kept pending (the delete option is off), is zero bytes
\* and deleted, is zero bytes and the delete fails, or getsize raises.  publish: file_idx % 50 == 0, the incremental all_files update.
ScanFile(i, outcome, publish) ==
    /\ scanPc = "walk" /\ ~stop_event
    /\ i \in (1..numFiles) \ discovered
    /\ outcome \in {"zero_deleted", "zero_delete_failed"} => delete_zeros
    /\ outcome = "zero_kept" => ~delete_zeros
    /\ discovered' = discovered \cup {i}
    /\ original_size' = [original_size EXCEPT ![i] =
          IF outcome = "pending" THEN Some(1) ELSE Some(0)]
    /\ status' = [status EXCEPT ![i] =
          CASE outcome \in {"pending", "zero_kept"} -> "pending"
            [] outcome = "zero_deleted" -> "deleted_zero"
            [] OTHER -> "error"]
    /\ status_message' = [status_message EXCEPT ![i] =
          CASE outcome \in {"pending", "zero_kept"} -> ""
            [] outcome = "zero_deleted" -> "0-byte file (deleted)"
            [] outcome = "zero_delete_failed" -> "0-byte (delete failed)"
            [] OTHER -> "Access error"]
    /\ error_details' = [error_details EXCEPT ![i] =
          IF outcome \in {"zero_delete_failed", "access_error"} THEN "OSError" ELSE @]
    /\ orig' = [orig EXCEPT ![i] = IF outcome = "zero_deleted" THEN "absent" ELSE @]
    /\ all_files' = IF publish /\ outcome # "access_error" THEN discovered' ELSE all_files
    /\ Charge(outcome # "pending")
    /\ UNCHANGED <<jobVars, cfgVars, cancels, encoded_size, input_codec,
                   qsv_input_codec, use_cpu_decode, temp_source_path,
                   temp_encoded_path, encoding_start_time, tsrc, tenc, listVars,
                   scanPc, prepVars, encVars, uiVars, histVars, stop_event, ui_lock_holder>>

\* `if stop_event.is_set(): return` inside the walk
ScanStop ==
    /\ scanPc = "walk" /\ stop_event
    /\ scanPc' = "done"
    /\ UNCHANGED <<jobVars, cfgVars, envVars, itemVars, diskVars, listVars, discovered, all_files,
                   original_size,
                   prepVars, encVars, uiVars, histVars, stop_event, ui_lock_holder>>

\* The walk is over: all_files is the sorted scan and every item still
\* pending is queued, in that order.
ScanFinish ==
    /\ scanPc = "walk" /\ discovered = 1..numFiles
    /\ all_files' = discovered
    /\ pending_files_queue' = SortedWith(discovered, status, LargeTree)
    /\ enqueues' = [i \in Items |-> enqueues[i] + Count(pending_files_queue', i)]
    /\ scanPc' = "done"
    /\ UNCHANGED <<jobVars, cfgVars, envVars, itemVars, diskVars, preparing_files_list,
                   ready_for_encode_queue, encoding_files_list, discovered,
                   original_size,
                   prepVars, encVars, uiVars, cancelAt, cancelProc, probed, dequeues,
                   stagings, stop_event, ui_lock_holder>>

\* =========================================================================
\* file_preparer_worker
\* =========================================================================

\* `while not stop_event.is_set()` is false
PrepExit ==
    /\ prepPc = "loop" /\ stop_event
    /\ prepPc' = "done"
    /\ UNCHANGED <<jobVars, cfgVars, envVars, itemVars, diskVars, listVars, scanVars, prepItem,
                   codec, encVars, uiVars, histVars, stop_event, ui_lock_holder>>

\* Items staged or ready leave room under NUM_FILES_TO_PREPARE
NumCanPrepareNoReady(ready, preparing) == NUM_FILES_TO_PREPARE - Len(preparing)
NumCanPrepare(ready, preparing) ==
    NUM_FILES_TO_PREPARE - (Len(ready) + Len(preparing))

\* The idle test and the cap test; with nothing pending or no room the
\* worker sleeps and comes back to the top of the loop.
PrepCheckCap ==
    /\ prepPc = "loop" /\ ~stop_event
    /\ pending_files_queue # <<>>
    /\ NumCanPrepare(ready_for_encode_queue, preparing_files_list) > 0
    /\ prepPc' = "dequeue"
    /\ UNCHANGED <<jobVars, cfgVars, envVars, itemVars, diskVars, listVars, scanVars, prepItem,
                   codec, encVars, uiVars, histVars, stop_event, ui_lock_holder>>

\* PrepDequeue reading pending_files_queue[0] without the popleft
PrepDequeuePeek ==
    /\ prepPc = "dequeue"
    /\ IF pending_files_queue = <<>>
       THEN /\ prepPc' = "loop"
            /\ UNCHANGED <<preparing_files_list, prepItem, dequeues, stagings>>
       ELSE LET file_item == Head(pending_files_queue) IN
            /\ dequeues' = [dequeues EXCEPT ![file_item] = @ + 1]
            /\ IF status[file_item] \in SkipOnDequeue
               THEN /\ prepPc' = "loop"
                    /\ UNCHANGED <<preparing_files_list, prepItem, stagings>>
               ELSE /\ preparing_files_list' = Append(preparing_files_list, file_item)
                    /\ stagings' = [stagings EXCEPT ![file_item] = @ + 1]
                    /\ prepItem' = file_item
                    /\ prepPc' = "check"
    /\ UNCHANGED <<jobVars, cfgVars, envVars, itemVars, diskVars, pending_files_queue,
                   ready_for_encode_queue, encoding_files_list, scanVars, codec,
                   encVars, uiVars, cancelAt, cancelProc, probed, enqueues, stop_event, ui_lock_holder>>

\* popleft under the lock; an item cancelled while pending is dropped
PrepDequeue ==
    /\ prepPc = "dequeue"
    /\ IF pending_files_queue = <<>>
       THEN /\ prepPc' = "loop"
            /\ UNCHANGED <<pending_files_queue, preparing_files_list, prepItem,
                           dequeues, stagings>>
       ELSE LET file_item == Head(pending_files_queue) IN
            /\ pending_files_queue' = Tail(pending_files_queue)
            /\ dequeues' = [dequeues EXCEPT ![file_item] = @ + 1]
            /\ IF status[file_item] \in SkipOnDequeue
               THEN /\ prepPc' = "loop"
                    /\ UNCHANGED <<preparing_files_list, prepItem, stagings>>
               ELSE /\ preparing_files_list' = Append(preparing_files_list, file_item)
                    /\ stagings' = [stagings EXCEPT ![file_item] = @ + 1]
                    /\ prepItem' = file_item
                    /\ prepPc' = "check"
    /\ UNCHANGED <<jobVars, cfgVars, envVars, itemVars, diskVars, ready_for_encode_queue,
                   encoding_files_list, scanVars, codec, encVars, uiVars,
                   cancelAt, cancelProc, probed, enqueues, stop_event, ui_lock_holder>>

\* status becomes checking unless the item is already finished
PrepCheck ==
    /\ prepPc = "check"
    /\ IF status[prepItem] \in TerminalStatuses
       THEN /\ preparing_files_list' = Remove(preparing_files_list, prepItem)
            /\ prepPc' = "loop" /\ prepItem' = 0
            /\ UNCHANGED <<status, status_message>>
       ELSE /\ status' = [status EXCEPT ![prepItem] = "checking"]
            /\ status_message' = [status_message EXCEPT ![prepItem] = "ffprobe"]
            /\ prepPc' = "probe"
            /\ UNCHANGED <<preparing_files_list, prepItem>>
    /\ UNCHANGED <<jobVars, cfgVars, envVars, encoded_size, error_details, input_codec,
                   qsv_input_codec, use_cpu_decode, temp_source_path,
                   temp_encoded_path, encoding_start_time, diskVars,
                   pending_files_queue, ready_for_encode_queue,
                   encoding_files_list, scanVars, codec, encVars, uiVars,
                   histVars, stop_event, ui_lock_holder>>

\* get_video_codec_info, outside the lock; any failure is the result None,
\* and so is every call when ffprobe is not installed (Popen raises)
PrepProbe(c) ==
    /\ prepPc = "probe"
    /\ c \in tree_codecs
    /\ missing = "ffprobe" => c = NoCodec
    /\ codec' = c
    /\ probed' = [probed EXCEPT ![prepItem] = c]
    /\ prepPc' = "probed"
    /\ Charge(c = NoCodec /\ missing # "ffprobe")
    /\ UNCHANGED <<jobVars, cfgVars, cancels, itemVars, diskVars, listVars, scanVars, prepItem,
                   encVars, uiVars, cancelAt, cancelProc, queueHist, stop_event, ui_lock_holder>>

\* First check after the probe: a cancelled item the UI already took out of
\* preparing_files_list is dropped; otherwise input_codec is recorded.
PrepAfterProbe ==
    /\ prepPc = "probed"
    /\ IF ~Contains(preparing_files_list, prepItem) /\ IsCancelled(prepItem)
       THEN /\ prepPc' = "loop" /\ prepItem' = 0 /\ codec' = NoCodec
            /\ UNCHANGED input_codec
       ELSE /\ input_codec' = [input_codec EXCEPT ![prepItem] = codec]
            /\ prepPc' = "stopcheck"
            /\ UNCHANGED <<prepItem, codec>>
    /\ UNCHANGED <<jobVars, cfgVars, envVars, status, status_message, encoded_size, error_details,
                   qsv_input_codec, use_cpu_decode,
                   temp_source_path, temp_encoded_path, encoding_start_time,
                   diskVars, listVars, scanVars, encVars, uiVars, histVars,
                   stop_event, ui_lock_holder>>

\* `if stop_event.is_set(): break`, then the second cancellation check
PrepStopCheck ==
    /\ prepPc = "stopcheck"
    /\ IF stop_event
       THEN /\ prepPc' = "done"
            /\ UNCHANGED <<preparing_files_list, prepItem, codec>>
       ELSE IF IsCancelled(prepItem)
       THEN /\ preparing_files_list' = Remove(preparing_files_list, prepItem)
            /\ prepPc' = "loop" /\ prepItem' = 0 /\ codec' = NoCodec
       ELSE /\ prepPc' = "decide"
            /\ UNCHANGED <<preparing_files_list, prepItem, codec>>
    /\ UNCHANGED <<jobVars, cfgVars, envVars, itemVars, diskVars, pending_files_queue,
                   ready_for_encode_queue, encoding_files_list, scanVars,
                   encVars, uiVars, histVars, stop_event, ui_lock_holder>>

\* codec == 'av1': the item is skipped
PrepSkipAv1 ==
    /\ prepPc = "decide" /\ codec = "av1"
    /\ status' = [status EXCEPT ![prepItem] = "skipped"]
    /\ status_message' = [status_message EXCEPT ![prepItem] = "Already AV1"]
    /\ preparing_files_list' = Remove(preparing_files_list, prepItem)
    /\ prepPc' = "loop" /\ prepItem' = 0 /\ codec' = NoCodec
    /\ UNCHANGED <<jobVars, cfgVars, envVars, encoded_size, error_details, input_codec,
                   qsv_input_codec, use_cpu_decode, temp_source_path,
                   temp_encoded_path, encoding_start_time, diskVars,
                   pending_files_queue, ready_for_encode_queue,
                   encoding_files_list, scanVars, encVars, uiVars, histVars,
                   stop_event, ui_lock_holder>>

\* PrepProbeFailed without its test of ARGS.delete_errors
PrepProbeFailedAlwaysDeletes(removed) ==
    /\ prepPc = "decide" /\ codec = NoCodec
    /\ status' = [status EXCEPT ![prepItem] =
                    IF removed THEN "deleted_error" ELSE "error"]
    /\ status_message' = [status_message EXCEPT ![prepItem] =
          IF removed THEN "ffprobe error (deleted)" ELSE "ffprobe error (del failed)"]
    /\ error_details' = [error_details EXCEPT ![prepItem] =
          IF ~removed THEN "ffprobe failed | Delete failed"
          ELSE IF @ = "" THEN "ffprobe failed" ELSE @]
    /\ orig' = [orig EXCEPT ![prepItem] = IF removed THEN "absent" ELSE @]
    /\ preparing_files_list' = Remove(preparing_files_list, prepItem)
    /\ prepPc' = "loop" /\ prepItem' = 0 /\ codec' = NoCodec
    /\ UNCHANGED <<jobVars, cfgVars, envVars, encoded_size, input_codec,
                   qsv_input_codec, use_cpu_decode, temp_source_path,
                   temp_encoded_path, encoding_start_time, tsrc, tenc,
                   pending_files_queue, ready_for_encode_queue,
                   encoding_files_list, scanVars, encVars, uiVars, histVars,
                   stop_event, ui_lock_holder>>

\* codec is None: error, and with --delete-errors the original is removed
\* (removed: os.remove did not raise)
PrepProbeFailed(removed) ==
    /\ prepPc = "decide" /\ codec = NoCodec
    /\ removed => delete_errors
    /\ status' = [status EXCEPT ![prepItem] =
                    IF removed THEN "deleted_error" ELSE "error"]
    /\ status_message' = [status_message EXCEPT ![prepItem] =
          IF ~delete_errors THEN "ffprobe failed"
          ELSE IF removed THEN "ffprobe error (deleted)"
          ELSE "ffprobe error (del failed)"]
    /\ error_details' = [error_details EXCEPT ![prepItem] =
          IF delete_errors /\ ~removed THEN "ffprobe failed | Delete failed"
          ELSE IF @ = "" THEN "ffprobe failed" ELSE @]
    /\ orig' = [orig EXCEPT ![prepItem] = IF removed THEN "absent" ELSE @]
    /\ preparing_files_list' = Remove(preparing_files_list, prepItem)
    /\ prepPc' = "loop" /\ prepItem' = 0 /\ codec' = NoCodec
    /\ UNCHANGED <<jobVars, cfgVars, envVars, encoded_size, input_codec,
                   qsv_input_codec, use_cpu_decode, temp_source_path,
                   temp_encoded_path, encoding_start_time, tsrc, tenc,
                   pending_files_queue, ready_for_encode_queue,
                   encoding_files_list, scanVars, encVars, uiVars, histVars,
                   stop_event, ui_lock_holder>>

\* PrepStartTransfer for every codec the probe found, av1 included
PrepStartTransferAnyCodec ==
    /\ prepPc = "decide" /\ codec # NoCodec
    /\ qsv_input_codec' = [qsv_input_codec EXCEPT ![prepItem] = QsvDecoder(codec)]
    /\ use_cpu_decode' = [use_cpu_decode EXCEPT ![prepItem] =
                              IF QsvDecoder(codec) = None THEN TRUE ELSE @]
    /\ IF IsCancelled(prepItem)
       THEN /\ preparing_files_list' = Remove(preparing_files_list, prepItem)
            /\ prepPc' = "loop" /\ prepItem' = 0 /\ codec' = NoCodec
            /\ UNCHANGED <<status, status_message>>
       ELSE /\ status' = [status EXCEPT ![prepItem] = "transferring_to_temp"]
            /\ status_message' = [status_message EXCEPT ![prepItem] = "Copying..."]
            /\ prepPc' = "copy"
            /\ UNCHANGED <<preparing_files_list, prepItem, codec>>
    /\ UNCHANGED <<jobVars, cfgVars, envVars, encoded_size, error_details, input_codec,
                   temp_source_path, temp_encoded_path, encoding_start_time,
                   diskVars, pending_files_queue, ready_for_encode_queue,
                   encoding_files_list, scanVars, encVars, uiVars, histVars,
                   stop_event, ui_lock_holder>>

\* PrepStartTransfer without its status write
PrepStartTransferStale ==
    /\ prepPc = "decide" /\ codec \notin {"av1", NoCodec}
    /\ qsv_input_codec' = [qsv_input_codec EXCEPT ![prepItem] = QsvDecoder(codec)]
    /\ use_cpu_decode' = [use_cpu_decode EXCEPT ![prepItem] =
                              IF QsvDecoder(codec) = None THEN TRUE ELSE @]
    /\ IF IsCancelled(prepItem)
       THEN /\ preparing_files_list' = Remove(preparing_files_list, prepItem)
            /\ prepPc' = "loop" /\ prepItem' = 0 /\ codec' = NoCodec
       ELSE /\ prepPc' = "copy"
            /\ UNCHANGED <<preparing_files_list, prepItem, codec>>
    /\ UNCHANGED <<jobVars, cfgVars, envVars, status, status_message, encoded_size,
                   error_details, input_codec, temp_source_path,
                   temp_encoded_path, encoding_start_time, diskVars,
                   pending_files_queue,
                   ready_for_encode_queue, encoding_files_list, scanVars,
                   encVars, uiVars, histVars, stop_event, ui_lock_holder>>

\* Any other codec: its QSV decoder is looked up and, when there is none,
\* the item is flagged for CPU decode; then the third cancellation check
\* and transferring_to_temp
PrepStartTransfer ==
    /\ prepPc = "decide" /\ codec \notin {"av1", NoCodec}
    /\ qsv_input_codec' = [qsv_input_codec EXCEPT ![prepItem] = QsvDecoder(codec)]
    /\ use_cpu_decode' = [use_cpu_decode EXCEPT ![prepItem] =
                              IF QsvDecoder(codec) = None THEN TRUE ELSE @]
    /\ IF IsCancelled(prepItem)
       THEN /\ preparing_files_list' = Remove(preparing_files_list, prepItem)
            /\ prepPc' = "loop" /\ prepItem' = 0 /\ codec' = NoCodec
            /\ UNCHANGED <<status, status_message>>
       ELSE /\ status' = [status EXCEPT ![prepItem] = "transferring_to_temp"]
            /\ status_message' = [status_message EXCEPT ![prepItem] = "Copying..."]
            /\ prepPc' = "copy"
            /\ UNCHANGED <<preparing_files_list, prepItem, codec>>
    /\ UNCHANGED <<jobVars, cfgVars, envVars, encoded_size, error_details, input_codec,
                   temp_source_path, temp_encoded_path, encoding_start_time,
                   diskVars, pending_files_queue, ready_for_encode_queue,
                   encoding_files_list, scanVars, encVars, uiVars, histVars,
                   stop_event, ui_lock_holder>>

\* temp_source_path is set and shutil.copy2 creates the temp file
PrepCopyStart ==
    /\ prepPc = "copy"
    /\ temp_source_path' = [temp_source_path EXCEPT ![prepItem] = TRUE]
    /\ tsrc' = [tsrc EXCEPT ![prepItem] = "partial"]
    /\ prepPc' = "copying"
    /\ UNCHANGED <<jobVars, cfgVars, envVars, status, status_message, encoded_size, error_details, input_codec,
                   qsv_input_codec, use_cpu_decode,
                   temp_encoded_path, encoding_start_time, orig, tenc, listVars,
                   scanVars, prepItem, codec, encVars, uiVars, histVars,
                   stop_event, ui_lock_holder>>

\* shutil.copy2 returns or raises; it raises when the temp file was
\* unlinked under it (copystat finds no file)
PrepCopyEnd(ok) ==
    /\ prepPc = "copying"
    /\ IF ok /\ tsrc[prepItem] # "absent"
       THEN /\ tsrc' = [tsrc EXCEPT ![prepItem] = "source"]
            /\ prepPc' = "copied"
       ELSE /\ prepPc' = "except"
            /\ UNCHANGED tsrc
    /\ Charge(~ok /\ tsrc[prepItem] # "absent")
    /\ UNCHANGED <<jobVars, cfgVars, cancels, itemVars, orig, tenc, listVars, scanVars, prepItem,
                   codec, encVars, uiVars, histVars, stop_event, ui_lock_holder>>

\* Last cancellation check; otherwise the item becomes ready and is handed
\* to the ready queue
PrepAfterCopy ==
    /\ prepPc = "copied"
    /\ IF IsCancelled(prepItem)
       THEN /\ tsrc' = [tsrc EXCEPT ![prepItem] = "absent"]
            /\ preparing_files_list' = Remove(preparing_files_list, prepItem)
            /\ UNCHANGED <<status, status_message, ready_for_encode_queue>>
       ELSE /\ status' = [status EXCEPT ![prepItem] = "ready"]
            /\ status_message' = [status_message EXCEPT ![prepItem] = "In temp"]
            /\ preparing_files_list' = Remove(preparing_files_list, prepItem)
            /\ ready_for_encode_queue' = Append(ready_for_encode_queue, prepItem)
            /\ UNCHANGED tsrc
    /\ prepPc' = "loop" /\ prepItem' = 0 /\ codec' = NoCodec
    /\ UNCHANGED <<jobVars, cfgVars, envVars, encoded_size, error_details, input_codec,
                   qsv_input_codec, use_cpu_decode, temp_source_path,
                   temp_encoded_path, encoding_start_time, orig, tenc,
                   pending_files_queue, encoding_files_list, scanVars, encVars,
                   uiVars, histVars, stop_event, ui_lock_holder>>

\* `except Exception`: the lock block of the handler
PrepExcept ==
    /\ prepPc = "except"
    /\ status' = [status EXCEPT ![prepItem] = "error"]
    /\ status_message' = [status_message EXCEPT ![prepItem] = "Preparation failed"]
    /\ error_details' = [error_details EXCEPT ![prepItem] = "Exception"]
    /\ preparing_files_list' = Remove(preparing_files_list, prepItem)
    /\ prepPc' = "except_clean"
    /\ UNCHANGED <<jobVars, cfgVars, envVars, encoded_size, input_codec,
                   qsv_input_codec, use_cpu_decode, temp_source_path,
                   temp_encoded_path, encoding_start_time, diskVars,
                   pending_files_queue, ready_for_encode_queue,
                   encoding_files_list, scanVars, prepItem, codec, encVars,
                   uiVars, histVars, stop_event, ui_lock_holder>>

\* the handler removes the temp source, outside the lock
PrepExceptClean ==
    /\ prepPc = "except_clean"
    /\ tsrc' = [tsrc EXCEPT ![prepItem] = IF temp_source_path[prepItem] THEN "absent" ELSE @]
    /\ prepPc' = "loop" /\ prepItem' = 0 /\ codec' = NoCodec
    /\ UNCHANGED <<jobVars, cfgVars, envVars, itemVars, orig, tenc, listVars, scanVars, encVars,
                   uiVars, histVars, stop_event, ui_lock_holder>>

Preparer ==
    \/ PrepExit
    \/ PrepCheckCap
    \/ PrepDequeue
    \/ PrepCheck
    \/ \E c \in MixedCodecs : PrepProbe(c)
    \/ PrepAfterProbe
    \/ PrepStopCheck
    \/ PrepSkipAv1
    \/ \E removed \in BOOLEAN : PrepProbeFailed(removed)
    \/ PrepStartTransfer
    \/ PrepCopyStart
    \/ \E ok \in BOOLEAN : PrepCopyEnd(ok)
    \/ PrepAfterCopy
    \/ PrepExcept
    \/ PrepExceptClean

\* =========================================================================
\* ffmpeg_encoder_worker and the transcode process
\* =========================================================================

\* Exit code and output file the transcode process can leave behind
ExitCodes == {0, 1}
Outputs(rc) == IF rc = 0 THEN {"absent", "empty", "encoded"} ELSE {"absent", "encoded"}
\* The nominal end: exit code 0 with its output, or, once terminate() was
\* sent, a failure exit with the output half written
NominalExit == IF process = "running" THEN <<0, "encoded">> ELSE <<1, "encoded">>

encLocals == <<process, return_code, timed_out, app_stop_event_detected_in_poll,
               user_initiated_cancel_detected_in_poll,
               final_status_is_user_cancelled, elapsed, ffmpeg_command_list>>

\* EncExit for a loop test that does not read stop_event: the idle worker
\* sleeps and goes round again
EncExitNever ==
    /\ encPc = "loop" /\ stop_event
    /\ UNCHANGED vars

\* `while not stop_event.is_set()` is false
EncExit ==
    /\ encPc = "loop" /\ stop_event
    /\ encPc' = "done"
    /\ UNCHANGED <<jobVars, cfgVars, envVars, itemVars, diskVars, listVars, scanVars, prepVars,
                   encItem, encLocals, uiVars, histVars, stop_event, ui_lock_holder>>

\* The idle pass: nothing was picked, and under the lock the worker finds
\* the four queues empty and every item of all_files terminal; it then
\* sleeps for two seconds inside the `with ui_lock:` block.  A thread that
\* wants the lock meanwhile waits for the wake-up; its step is the step it
\* takes once it has the lock.
EncIdle ==
    /\ encPc = "loop" /\ ~stop_event
    /\ ~(ready_for_encode_queue # <<>> /\ Len(encoding_files_list) < num_ffmpeg_workers)
    /\ pending_files_queue = <<>> /\ preparing_files_list = <<>>
    /\ ready_for_encode_queue = <<>> /\ encoding_files_list = <<>>
    /\ \A f \in all_files : status[f] \in TerminalStatuses
    /\ ui_lock_holder = "none"
    /\ ui_lock_holder' = "encoder"
    /\ encPc' = "idle_sleep"
    /\ UNCHANGED <<jobVars, cfgVars, envVars, itemVars, diskVars, listVars, scanVars, prepVars,
                   encItem, encLocals, uiVars, histVars, stop_event>>

\* time.sleep(2) is over: the block ends, the lock is released, `continue`
EncIdleWake ==
    /\ encPc = "idle_sleep"
    /\ ui_lock_holder' = "none"
    /\ encPc' = "loop"
    /\ UNCHANGED <<jobVars, cfgVars, envVars, itemVars, diskVars, listVars, scanVars, prepVars,
                   encItem, encLocals, uiVars, histVars, stop_event>>

\* A worker slot is free: fewer than NUM_FFMPEG_WORKERS items in flight
HasFreeWorker(encoding) == Len(encoding) < num_ffmpeg_workers

\* EncPick without the append to encoding_files_list
EncPickUnlisted ==
    /\ encPc = "loop" /\ ~stop_event
    /\ ready_for_encode_queue # <<>>
    /\ HasFreeWorker(encoding_files_list)
    /\ encItem' = Head(ready_for_encode_queue)
    /\ ready_for_encode_queue' = Tail(ready_for_encode_queue)
    /\ encPc' = "validate"
    /\ UNCHANGED <<jobVars, cfgVars, envVars, itemVars, diskVars, pending_files_queue,
                   preparing_files_list, encoding_files_list, scanVars, prepVars,
                   encLocals, uiVars, histVars, stop_event, ui_lock_holder>>

\* popleft from the ready queue into encoding_files_list, under the lock
EncPick ==
    /\ encPc = "loop" /\ ~stop_event
    /\ ready_for_encode_queue # <<>>
    /\ HasFreeWorker(encoding_files_list)
    /\ encItem' = Head(ready_for_encode_queue)
    /\ ready_for_encode_queue' = Tail(ready_for_encode_queue)
    /\ encoding_files_list' = Append(encoding_files_list, Head(ready_for_encode_queue))
    /\ encPc' = "validate"
    /\ UNCHANGED <<jobVars, cfgVars, envVars, itemVars, diskVars, pending_files_queue,
                   preparing_files_list, scanVars, prepVars, encLocals, uiVars,
                   histVars, stop_event, ui_lock_holder>>

\* is_already_cancelled_or_deleted
EncValidate ==
    /\ encPc = "validate"
    /\ encPc' = IF status[encItem] \in SkipOnDequeue THEN "preclean" ELSE "set_encoding"
    /\ UNCHANGED <<jobVars, cfgVars, envVars, itemVars, diskVars, listVars, scanVars, prepVars,
                   encItem, encLocals, uiVars, histVars, stop_event, ui_lock_holder>>

\* EncPreClean removing original_path in place of temp_source_path
EncPreCleanOriginal ==
    /\ encPc = "preclean"
    /\ orig' = [orig EXCEPT ![encItem] = IF temp_source_path[encItem] THEN "absent" ELSE @]
    /\ encPc' = "finally"
    /\ UNCHANGED <<jobVars, cfgVars, envVars, itemVars, tsrc, tenc, listVars, scanVars, prepVars,
                   encItem, encLocals, uiVars, histVars, stop_event, ui_lock_holder>>

\* the picked item was already cancelled: only its temp source is removed
EncPreClean ==
    /\ encPc = "preclean"
    /\ tsrc' = [tsrc EXCEPT ![encItem] = IF temp_source_path[encItem] THEN "absent" ELSE @]
    /\ encPc' = "finally"
    /\ UNCHANGED <<jobVars, cfgVars, envVars, itemVars, orig, tenc, listVars, scanVars, prepVars,
                   encItem, encLocals, uiVars, histVars, stop_event, ui_lock_holder>>

\* status = "encoding" and encoding_start_time = time.time(), under the lock
EncSetEncoding ==
    /\ encPc = "set_encoding"
    /\ status' = [status EXCEPT ![encItem] = "encoding"]
    /\ status_message' = [status_message EXCEPT ![encItem] = "FFmpeg running"]
    /\ encoding_start_time' = [encoding_start_time EXCEPT ![encItem] = TRUE]
    /\ encPc' = "spawn"
    /\ UNCHANGED <<jobVars, cfgVars, envVars, encoded_size, error_details, input_codec,
                   qsv_input_codec, use_cpu_decode, temp_source_path,
                   temp_encoded_path, diskVars, listVars, scanVars, prepVars,
                   encItem, encLocals, uiVars, histVars, stop_event, ui_lock_holder>>

\* temp_encoded_path is set, the command is built and subprocess.Popen
\* starts the process or raises; it always raises when ffmpeg is not
\* installed
EncSpawn(ok) ==
    /\ encPc = "spawn"
    /\ temp_encoded_path' = [temp_encoded_path EXCEPT ![encItem] = TRUE]
    /\ ffmpeg_command_list' =
           InputOptions(use_cpu_decode[encItem], qsv_input_codec[encItem])
    /\ missing = "ffmpeg" => ~ok
    /\ IF ok THEN process' = "running" /\ encPc' = "poll"
             ELSE process' = "none" /\ encPc' = "except"
    /\ Charge(~ok /\ missing # "ffmpeg")
    /\ UNCHANGED <<jobVars, cfgVars, cancels, status, status_message, encoded_size, error_details, input_codec,
                   qsv_input_codec, use_cpu_decode,
                   temp_source_path, encoding_start_time, diskVars, listVars,
                   scanVars, prepVars, encItem, return_code, timed_out,
                   app_stop_event_detected_in_poll,
                   user_initiated_cancel_detected_in_poll,
                   final_status_is_user_cancelled, elapsed, uiVars, histVars,
                   stop_event, ui_lock_holder>>

\* Time passes: the running process is now older than the timeout
Tick ==
    /\ process = "running" /\ ~elapsed
    /\ elapsed' = TRUE
    /\ Charge(TRUE)
    /\ UNCHANGED <<jobVars, cfgVars, cancels, itemVars, diskVars, listVars, scanVars, prepVars,
                   encPc, encItem, process, return_code, timed_out,
                   app_stop_event_detected_in_poll,
                   user_initiated_cancel_detected_in_poll,
                   final_status_is_user_cancelled, ffmpeg_command_list, uiVars,
                   histVars, stop_event, ui_lock_holder>>

\* The transcode process ends by itself, or after terminate() reached it
ProcExit(rc, out) ==
    /\ process \in {"running", "terminating"}
    /\ rc \in ExitCodes /\ out \in Outputs(rc)
    /\ process' = "exited"
    /\ return_code' = rc
    /\ tenc' = [tenc EXCEPT ![encItem] = out]
    /\ Charge(<<rc, out>> # NominalExit)
    /\ UNCHANGED <<jobVars, cfgVars, cancels, itemVars, orig, tsrc, listVars, scanVars, prepVars,
                   encPc, encItem, timed_out, app_stop_event_detected_in_poll,
                   user_initiated_cancel_detected_in_poll,
                   final_status_is_user_cancelled, elapsed, ffmpeg_command_list, uiVars, histVars,
                   stop_event, ui_lock_holder>>

\* `while process.poll() is None` is false: the process ended by itself.
\* communicate() collects its exit code and final_status_is_user_cancelled
\* is read under the lock.
EncPollExited ==
    /\ encPc = "poll" /\ process = "exited"
    /\ final_status_is_user_cancelled' = IsCancelled(encItem)
    /\ encPc' = "resolve"
    /\ UNCHANGED <<jobVars, cfgVars, envVars, itemVars, diskVars, listVars, scanVars, prepVars,
                   encItem, process, return_code, timed_out,
                   app_stop_event_detected_in_poll,
                   user_initiated_cancel_detected_in_poll, elapsed, ffmpeg_command_list, uiVars,
                   histVars, stop_event, ui_lock_holder>>

\* What one pass of the poll loop finds, in the order the loop tests it
\* (PollFindsNoStop: a loop that does not look at stop_event;
\* PollFindsTimeoutFirst: a loop that tests the timeout before the
\* cancellation)
PollFindsTimeoutFirst ==
    IF stop_event THEN "stop"
    ELSE IF FFMPEG_ENCODE_TIMEOUT_SECONDS > 0 /\ encoding_start_time[encItem] /\ elapsed
    THEN "timeout"
    ELSE IF IsCancelled(encItem) THEN "cancel"
    ELSE "sleep"
PollFindsNoStop ==
    IF IsCancelled(encItem) THEN "cancel"
    ELSE IF FFMPEG_ENCODE_TIMEOUT_SECONDS > 0 /\ encoding_start_time[encItem] /\ elapsed
    THEN "timeout"
    ELSE "sleep"
PollFinds ==
    IF stop_event THEN "stop"
    ELSE IF IsCancelled(encItem) THEN "cancel"
    ELSE IF FFMPEG_ENCODE_TIMEOUT_SECONDS > 0 /\ encoding_start_time[encItem] /\ elapsed
    THEN "timeout"
    ELSE "sleep"

\* One pass of the poll loop that ends it: terminate() and break
EncPollBreak ==
    /\ encPc = "poll" /\ process = "running"
    /\ PollFinds # "sleep"
    /\ process' = "terminating"
    /\ app_stop_event_detected_in_poll' = (PollFinds = "stop")
    /\ user_initiated_cancel_detected_in_poll' = (PollFinds = "cancel")
    /\ timed_out' = (PollFinds = "timeout")
    /\ encPc' = "wait"
    /\ UNCHANGED <<jobVars, cfgVars, envVars, itemVars, diskVars, listVars, scanVars, prepVars,
                   encItem, return_code, final_status_is_user_cancelled, elapsed,
                   ffmpeg_command_list,
                   uiVars, histVars, stop_event, ui_lock_holder>>

\* process.wait(timeout=10) returns: the process has exited.  After a
\* timeout the exit code is replaced by -9.  Then
\* final_status_is_user_cancelled is read under the lock.
EncWaitDone ==
    /\ encPc = "wait" /\ process = "exited"
    /\ return_code' = IF timed_out THEN -9 ELSE return_code
    /\ final_status_is_user_cancelled' = IsCancelled(encItem)
    /\ encPc' = "resolve"
    /\ UNCHANGED <<jobVars, cfgVars, envVars, itemVars, diskVars, listVars, scanVars, prepVars,
                   encItem, process, timed_out, app_stop_event_detected_in_poll,
                   user_initiated_cancel_detected_in_poll, elapsed, ffmpeg_command_list, uiVars,
                   histVars, stop_event, ui_lock_holder>>

\* process.wait(timeout=10) raises TimeoutExpired: kill() and wait(), then
\* as above
EncWaitKill(out) ==
    /\ encPc = "wait" /\ process = "terminating"
    /\ out \in Outputs(-9)
    /\ process' = "exited"
    /\ return_code' = -9
    /\ tenc' = [tenc EXCEPT ![encItem] = out]
    /\ final_status_is_user_cancelled' = IsCancelled(encItem)
    /\ encPc' = "resolve"
    /\ Charge(TRUE)
    /\ UNCHANGED <<jobVars, cfgVars, cancels, itemVars, orig, tsrc, listVars, scanVars, prepVars,
                   encItem, timed_out, app_stop_event_detected_in_poll,
                   user_initiated_cancel_detected_in_poll, elapsed, ffmpeg_command_list, uiVars,
                   histVars, stop_event, ui_lock_holder>>

\* The branch of the if/elif chain after the process has ended
\* (OutcomeIgnoresCode: the chain without its test of return_code;
\* OutcomeStopFirst: the chain with the application stop tested before the
\* user's cancellation)
OutcomeStopFirst ==
    IF timed_out THEN "timeout"
    ELSE IF app_stop_event_detected_in_poll THEN "interrupted"
    ELSE IF final_status_is_user_cancelled THEN "cancelled"
    ELSE IF return_code = 0
         THEN (IF tenc[encItem] = "absent" THEN "output_missing" ELSE "commit")
    ELSE "failed"
OutcomeIgnoresCode ==
    IF timed_out THEN "timeout"
    ELSE IF final_status_is_user_cancelled THEN "cancelled"
    ELSE IF app_stop_event_detected_in_poll THEN "interrupted"
    ELSE IF tenc[encItem] = "absent" THEN "output_missing" ELSE "commit"
Outcome ==
    IF timed_out THEN "timeout"
    ELSE IF final_status_is_user_cancelled THEN "cancelled"
    ELSE IF app_stop_event_detected_in_poll THEN "interrupted"
    ELSE IF return_code = 0
         THEN (IF tenc[encItem] = "absent" THEN "output_missing" ELSE "commit")
    ELSE "failed"

\* Every branch but the commit: the item is marked (or left cancelled)
EncResolve ==
    /\ encPc = "resolve" /\ Outcome # "commit"
    /\ status' = [status EXCEPT ![encItem] =
                    IF Outcome = "cancelled" THEN @ ELSE "error"]
    /\ status_message' = [status_message EXCEPT ![encItem] =
          CASE Outcome = "timeout" -> "FFmpeg Timeout"
            [] Outcome = "cancelled" -> @
            [] Outcome = "interrupted" -> "Interrupted (app exit)"
            [] Outcome = "output_missing" -> "Output missing"
            [] OTHER -> "FFmpeg failed"]
    /\ error_details' = [error_details EXCEPT ![encItem] =
          CASE Outcome = "timeout" -> "Process exceeded timeout"
            [] Outcome = "cancelled" -> @
            [] Outcome = "interrupted" -> "Process stopped by application exit"
            [] Outcome = "output_missing" -> "FFmpeg success but output missing"
            [] OTHER -> "FFmpeg Error (code, stderr or stdout)"]
    /\ encPc' = "cleanup"
    /\ UNCHANGED <<jobVars, cfgVars, envVars, encoded_size, input_codec,
                   qsv_input_codec, use_cpu_decode, temp_source_path,
                   temp_encoded_path, encoding_start_time, diskVars, listVars,
                   scanVars, prepVars, encItem, encLocals, uiVars, histVars,
                   stop_event, ui_lock_holder>>

\* Size recorded from the output file
SizeOf(content) == IF content = "empty" THEN 0 ELSE 1

\* Exit code 0 and the output exists: encoded_size is recorded, the temp
\* source is removed, the output is renamed to the temp source's name and
\* temp_encoded_path is cleared
EncCommitStage ==
    /\ encPc = "resolve" /\ Outcome = "commit"
    /\ encoded_size' = [encoded_size EXCEPT ![encItem] = Some(SizeOf(tenc[encItem]))]
    /\ tsrc' = [tsrc EXCEPT ![encItem] = tenc[encItem]]
    /\ tenc' = [tenc EXCEPT ![encItem] = "absent"]
    /\ temp_encoded_path' = [temp_encoded_path EXCEPT ![encItem] = FALSE]
    /\ encPc' = "mark_moving"
    /\ UNCHANGED <<jobVars, cfgVars, envVars, status, status_message, input_codec,
                   qsv_input_codec, use_cpu_decode,
                   error_details, temp_source_path, encoding_start_time, orig, listVars,
                   scanVars, prepVars, encItem, encLocals, uiVars, histVars,
                   stop_event, ui_lock_holder>>

\* status = "transferring_to_source", under the lock
EncMarkMoving ==
    /\ encPc = "mark_moving"
    /\ status' = [status EXCEPT ![encItem] = "transferring_to_source"]
    /\ status_message' = [status_message EXCEPT ![encItem] = "Moving..."]
    /\ encPc' = "move"
    /\ UNCHANGED <<jobVars, cfgVars, envVars, encoded_size, error_details, input_codec,
                   qsv_input_codec, use_cpu_decode, temp_source_path,
                   temp_encoded_path, encoding_start_time, diskVars, listVars,
                   scanVars, prepVars, encItem, encLocals, uiVars, histVars,
                   stop_event, ui_lock_holder>>

\* shutil.move(final_temp_name, original_path): it replaces the original,
\* or raises, leaving the original as it was or half overwritten
EncMove(ok, damaged) ==
    /\ encPc = "move"
    /\ IF ok /\ tsrc[encItem] # "absent"
       THEN /\ ~damaged
            /\ orig' = [orig EXCEPT ![encItem] = tsrc[encItem]]
            /\ tsrc' = [tsrc EXCEPT ![encItem] = "absent"]
            /\ encPc' = "mark_success"
       ELSE /\ damaged => tsrc[encItem] # "absent"
            /\ orig' = [orig EXCEPT ![encItem] = IF damaged THEN "partial" ELSE @]
            /\ encPc' = "except"
            /\ UNCHANGED tsrc
    /\ Charge(~ok /\ tsrc[encItem] # "absent")
    /\ UNCHANGED <<jobVars, cfgVars, cancels, itemVars, tenc, listVars, scanVars, prepVars,
                   encItem, encLocals, uiVars, histVars, stop_event, ui_lock_holder>>

\* status = "success", under the lock
EncMarkSuccess ==
    /\ encPc = "mark_success"
    /\ status' = [status EXCEPT ![encItem] = "success"]
    /\ status_message' = [status_message EXCEPT ![encItem] = "AV1 Encoded"]
    /\ encPc' = "cleanup"
    /\ UNCHANGED <<jobVars, cfgVars, envVars, encoded_size, error_details, input_codec,
                   qsv_input_codec, use_cpu_decode, temp_source_path,
                   temp_encoded_path, encoding_start_time, diskVars, listVars,
                   scanVars, prepVars, encItem, encLocals, uiVars, histVars,
                   stop_event, ui_lock_holder>>

\* EncCleanup without the reset of encoding_start_time
EncCleanupNoReset ==
    /\ encPc = "cleanup"
    /\ IF status[encItem] \notin {"success", "transferring_to_source"}
       THEN /\ tenc' = [tenc EXCEPT ![encItem] = IF temp_encoded_path[encItem] THEN "absent" ELSE @]
            /\ tsrc' = [tsrc EXCEPT ![encItem] = IF temp_source_path[encItem] THEN "absent" ELSE @]
       ELSE UNCHANGED <<tsrc, tenc>>
    /\ encPc' = "finally"
    /\ UNCHANGED <<jobVars, cfgVars, envVars, itemVars, orig, listVars, scanVars, prepVars,
                   encItem, encLocals, uiVars, histVars, stop_event, ui_lock_holder>>

\* Unless the item succeeded, its temp output and temp source are removed;
\* then encoding_start_time = None, under the lock
EncCleanup ==
    /\ encPc = "cleanup"
    /\ IF status[encItem] \notin {"success", "transferring_to_source"}
       THEN /\ tenc' = [tenc EXCEPT ![encItem] = IF temp_encoded_path[encItem] THEN "absent" ELSE @]
            /\ tsrc' = [tsrc EXCEPT ![encItem] = IF temp_source_path[encItem] THEN "absent" ELSE @]
       ELSE UNCHANGED <<tsrc, tenc>>
    /\ encoding_start_time' = [encoding_start_time EXCEPT ![encItem] = FALSE]
    /\ encPc' = "finally"
    /\ UNCHANGED <<jobVars, cfgVars, envVars, status, status_message, encoded_size, error_details,
                   input_codec,
                   qsv_input_codec, use_cpu_decode, temp_source_path, temp_encoded_path, orig,
                   listVars, scanVars, prepVars, encItem, encLocals, uiVars,
                   histVars, stop_event, ui_lock_holder>>

\* An exception raised in the poll loop while the process runs
EncPollRaise ==
    /\ encPc = "poll" /\ process = "running"
    /\ encPc' = "except"
    /\ Charge(TRUE)
    /\ UNCHANGED <<jobVars, cfgVars, cancels, itemVars, diskVars, listVars, scanVars, prepVars,
                   encItem, encLocals, uiVars, histVars, stop_event, ui_lock_holder>>

\* `except Exception`: status = "error" and encoding_start_time = None under
\* the lock.  With no process running the handler goes on to remove both
\* temp files; a process still running is sent terminate() first.
EncExcept ==
    /\ encPc = "except"
    /\ status' = [status EXCEPT ![encItem] = "error"]
    /\ status_message' = [status_message EXCEPT ![encItem] = "Processing exception"]
    /\ error_details' = [error_details EXCEPT ![encItem] = "Exception"]
    /\ encoding_start_time' = [encoding_start_time EXCEPT ![encItem] = FALSE]
    /\ IF process \in {"running", "terminating"}
       THEN /\ process' = "terminating"
            /\ encPc' = "except_wait"
            /\ UNCHANGED <<tsrc, tenc>>
       ELSE /\ tsrc' = [tsrc EXCEPT ![encItem] = IF temp_source_path[encItem] THEN "absent" ELSE @]
            /\ tenc' = [tenc EXCEPT ![encItem] = IF temp_encoded_path[encItem] THEN "absent" ELSE @]
            /\ encPc' = "finally"
            /\ UNCHANGED process
    /\ UNCHANGED <<jobVars, cfgVars, envVars, encoded_size, input_codec,
                   qsv_input_codec, use_cpu_decode, temp_source_path,
                   temp_encoded_path, orig, listVars, scanVars, prepVars,
                   encItem, return_code, timed_out,
                   app_stop_event_detected_in_poll,
                   user_initiated_cancel_detected_in_poll,
                   final_status_is_user_cancelled, elapsed, ffmpeg_command_list, uiVars, histVars,
                   stop_event, ui_lock_holder>>

\* The handler's process.wait(timeout=5): it returns once the process has
\* exited, or raises TimeoutExpired and the handler calls kill(), with no
\* wait after it; then both temp files are removed
EncExceptWait ==
    /\ encPc = "except_wait"
    /\ process' = IF process = "terminating" THEN "killed" ELSE process
    /\ tsrc' = [tsrc EXCEPT ![encItem] = IF temp_source_path[encItem] THEN "absent" ELSE @]
    /\ tenc' = [tenc EXCEPT ![encItem] = IF temp_encoded_path[encItem] THEN "absent" ELSE @]
    /\ encPc' = "finally"
    /\ UNCHANGED <<jobVars, cfgVars, envVars, itemVars, orig, listVars, scanVars, prepVars,
                   encItem, return_code, timed_out,
                   app_stop_event_detected_in_poll,
                   user_initiated_cancel_detected_in_poll,
                   final_status_is_user_cancelled, elapsed, ffmpeg_command_list, uiVars, histVars,
                   stop_event, ui_lock_holder>>

\* EncFinally without the removal from encoding_files_list
EncFinallyKeeps ==
    /\ encPc = "finally"
    /\ encPc' = "loop" /\ encItem' = 0
    /\ process' = "none" /\ return_code' = 0 /\ timed_out' = FALSE
    /\ app_stop_event_detected_in_poll' = FALSE
    /\ user_initiated_cancel_detected_in_poll' = FALSE
    /\ final_status_is_user_cancelled' = FALSE
    /\ elapsed' = FALSE
    /\ ffmpeg_command_list' = <<>>
    /\ UNCHANGED <<jobVars, cfgVars, envVars, itemVars, diskVars, listVars, scanVars,
                   prepVars, uiVars, histVars, stop_event, ui_lock_holder>>

\* `finally`: the item leaves encoding_files_list; the next loop pass starts
\* with fresh locals
EncFinally ==
    /\ encPc = "finally"
    /\ encoding_files_list' = Remove(encoding_files_list, encItem)
    /\ encPc' = "loop" /\ encItem' = 0
    /\ process' = "none" /\ return_code' = 0 /\ timed_out' = FALSE
    /\ app_stop_event_detected_in_poll' = FALSE
    /\ user_initiated_cancel_detected_in_poll' = FALSE
    /\ final_status_is_user_cancelled' = FALSE
    /\ elapsed' = FALSE
    /\ ffmpeg_command_list' = <<>>
    /\ UNCHANGED <<jobVars, cfgVars, envVars, itemVars, diskVars, pending_files_queue,
                   preparing_files_list, ready_for_encode_queue, scanVars,
                   prepVars, uiVars, histVars, stop_event, ui_lock_holder>>

Encoder ==
    \/ EncExit
    \/ EncIdle
    \/ EncIdleWake
    \/ EncPick
    \/ EncValidate
    \/ EncPreClean
    \/ EncSetEncoding
    \/ \E ok \in BOOLEAN : EncSpawn(ok)
    \/ Tick
    \/ \E rc \in ExitCodes : \E out \in Outputs(rc) : ProcExit(rc, out)
    \/ EncPollExited
    \/ EncPollBreak
    \/ EncPollRaise
    \/ EncWaitDone
    \/ \E out \in Outputs(-9) : EncWaitKill(out)
    \/ EncResolve
    \/ EncCommitStage
    \/ EncMarkMoving
    \/ \E ok \in BOOLEAN, damaged \in BOOLEAN : EncMove(ok, damaged)
    \/ EncMarkSuccess
    \/ EncCleanup
    \/ EncExcept
    \/ EncExceptWait
    \/ EncFinally

\* =========================================================================
\* curses_main: the cancel and quit keys, the joins, cleanup_all_temp_files
\* =========================================================================

\* 'c' on the item selected in all_files: a status outside the terminal list
\* becomes cancelled and the item leaves preparing_files_list and
\* ready_for_encode_queue
Cancel(i) ==
    /\ uiPc = "running"
    /\ i \in all_files
    /\ status[i] \notin TerminalStatuses
    /\ status' = [status EXCEPT ![i] = "cancelled"]
    /\ status_message' = [status_message EXCEPT ![i] = "User cancelled"]
    /\ preparing_files_list' = Remove(preparing_files_list, i)
    /\ ready_for_encode_queue' = Remove(ready_for_encode_queue, i)
    /\ cancelAt' = [cancelAt EXCEPT ![i] = status[i]]
    /\ cancelProc' = [cancelProc EXCEPT ![i] = IF encItem = i THEN process ELSE "none"]
    /\ cancels < MaxCancels
    /\ cancels' = cancels + 1
    /\ UNCHANGED <<jobVars, cfgVars, faults, encoded_size, error_details, input_codec,
                   qsv_input_codec, use_cpu_decode, temp_source_path,
                   temp_encoded_path, encoding_start_time, diskVars,
                   pending_files_queue, encoding_files_list, scanVars, prepVars,
                   encVars, uiVars, probed, queueHist, stop_event, ui_lock_holder>>

\* 'q', or any way out of the main loop: the finally block sets stop_event
\* and joins each thread still alive with t.join(timeout=5 or 12).  A join
\* returns when the thread has exited and also when its timeout has run
\* out, so the sweep that follows can run with a stage still at work.
Quit ==
    /\ uiPc = "running"
    /\ stop_event' = TRUE
    /\ uiPc' = "sweep"
    /\ UNCHANGED <<jobVars, cfgVars, envVars, itemVars, diskVars, listVars, scanVars, prepVars,
                   encVars, histVars, ui_lock_holder>>

\* The paths cleanup_all_temp_files collects under the lock
CollectedSource(i) == i \in all_files /\ temp_source_path[i]
CollectedEncoded(i) == i \in all_files /\ temp_encoded_path[i]

\* os.path.commonpath([abspath(f_path), abs_temp_directory]) == abs_temp_directory
\* (InTempDirectoryUnchecked: the sweep without that test)
InTempDirectoryUnchecked(i, kind) == TRUE
InTempDirectory(i, kind) == <<i, kind>> \notin outside

\* The disk after the sweep: every collected path that exists and lies in
\* TEMP_DIRECTORY is removed, unless os.remove raises (which is only logged)
SweptSource(ts) ==
    [i \in Items |-> IF /\ CollectedSource(i) /\ InTempDirectory(i, "source")
                        /\ <<i, "source">> \notin unremovable
                     THEN "absent" ELSE ts[i]]
SweptEncoded(te) ==
    [i \in Items |-> IF /\ CollectedEncoded(i) /\ InTempDirectory(i, "encoded")
                        /\ <<i, "encoded">> \notin unremovable
                     THEN "absent" ELSE te[i]]

cleanup_all_temp_files ==
    /\ uiPc = "sweep"
    /\ tsrc' = SweptSource(tsrc)
    /\ tenc' = SweptEncoded(tenc)
    /\ uiPc' = "exited"
    /\ UNCHANGED <<jobVars, cfgVars, envVars, itemVars, orig, listVars, scanVars, prepVars,
                   encVars, histVars, stop_event, ui_lock_holder>>

Scanner ==
    \/ \E i \in Items :
         \E outcome \in {"pending", "zero_kept", "zero_deleted", "zero_delete_failed",
                          "access_error"} :
           \E publish \in BOOLEAN : ScanFile(i, outcome, publish)
    \/ ScanStop
    \/ ScanFinish

\* __main__ and the head of curses_main: the write test in TEMP_DIRECTORY,
\* then the three threads are started.  Nothing looks for ffprobe or ffmpeg.
Startup ==
    /\ uiPc = "startup"
    /\ IF missing = "temp"
       THEN /\ uiPc' = "aborted"
            /\ UNCHANGED <<scanPc, prepPc, encPc>>
       ELSE /\ uiPc' = "running"
            /\ scanPc' = "walk" /\ prepPc' = "loop" /\ encPc' = "loop"
    /\ UNCHANGED <<jobVars, cfgVars, envVars, itemVars, diskVars, listVars, discovered,
                   original_size,
                   all_files, prepItem, codec, encItem, encLocals, histVars,
                   stop_event, ui_lock_holder>>

UI ==
    \/ Startup
    \/ \E i \in Items : Cancel(i)
    \/ Quit
    \/ cleanup_all_temp_files

Next == Scanner \/ Preparer \/ Encoder \/ UI

Spec == Init /\ [][Next]_vars

\* The steps of the encoder thread itself, without the passing of time and
\* the end of the transcode process
EncoderSteps ==
    \/ EncExit
    \/ EncIdle
    \/ EncIdleWake
    \/ EncPick
    \/ EncValidate
    \/ EncPreClean
    \/ EncSetEncoding
    \/ \E ok \in BOOLEAN : EncSpawn(ok)
    \/ EncPollExited
    \/ EncPollBreak
    \/ EncPollRaise
    \/ EncWaitDone
    \/ \E out \in Outputs(-9) : EncWaitKill(out)
    \/ EncResolve
    \/ EncCommitStage
    \/ EncMarkMoving
    \/ \E ok \in BOOLEAN, damaged \in BOOLEAN : EncMove(ok, damaged)
    \/ EncMarkSuccess
    \/ EncCleanup
    \/ EncExcept
    \/ EncExceptWait
    \/ EncFinally

\* A process that was sent terminate() exits
TerminatedProcExit ==
    /\ process = "terminating"
    /\ \E rc \in ExitCodes : \E out \in Outputs(rc) : ProcExit(rc, out)

\* Runs of up to LiveTree files that start with every precondition met and
\* with the two delete options both given
LiveInit ==
    /\ Init /\ numFiles <= LiveTree /\ missing = "none"
    /\ delete_zeros /\ delete_errors

\* The encoder thread keeps running and a terminated process exits
ShutdownSpec ==
    /\ LiveInit /\ [][Next]_vars
    /\ WF_vars(EncoderSteps) /\ WF_vars(TerminatedProcExit)

\* Every worker thread keeps running and a terminated process exits
StopSpec ==
    /\ LiveInit /\ [][Next]_vars
    /\ WF_vars(Scanner) /\ WF_vars(Preparer)
    /\ WF_vars(EncoderSteps) /\ WF_vars(TerminatedProcExit)

\* The transcode process exits, by itself or after terminate()
ProcessEnds == \E rc \in ExitCodes : \E out \in Outputs(rc) : ProcExit(rc, out)

\* The main thread starts the workers, each worker thread keeps running and
\* every transcode process exits
LiveSpec ==
    /\ LiveInit /\ [][Next]_vars
    /\ WF_vars(Startup) /\ WF_vars(Scanner) /\ WF_vars(Preparer)
    /\ WF_vars(EncoderSteps) /\ WF_vars(ProcessEnds)

\* Runs over a tree of LargeTree files, every precondition met, in which
\* the user may cancel and quit
LargeInit ==
    /\ InitWith(LargeTree, NUM_FFMPEG_WORKERS, Codecs)
    /\ numFiles = LargeTree /\ missing = "none"

\* A step of a run in which nothing fails: every file can be read, probed,
\* copied, transcoded in time and moved back
NominalNext == Next /\ faults' = faults

LargeSpec == LargeInit /\ [][NominalNext]_vars

\* Runs over LiveTree files with NUM_FFMPEG_WORKERS configured as
\* MoreWorkers and every precondition met; the threads and the transcode
\* processes are scheduled as in LiveSpec
TwoWorkerInit ==
    /\ InitWith(LiveTree, MoreWorkers, Codecs)
    /\ numFiles = LiveTree /\ missing = "none"

TwoWorkerSpec ==
    /\ TwoWorkerInit /\ [][Next]_vars
    /\ WF_vars(Startup) /\ WF_vars(Scanner) /\ WF_vars(Preparer)
    /\ WF_vars(EncoderSteps) /\ WF_vars(ProcessEnds)

\* Runs over up to LiveTree files whose codecs include one that
\* qsv_decoder_map does not list, with every precondition met
CodecInit ==
    /\ InitWith(LiveTree, NUM_FFMPEG_WORKERS, MixedCodecs)
    /\ missing = "none" /\ delete_zeros = delete_errors

CodecSpec == CodecInit /\ [][Next]_vars

\* ---- cleanup_all_temp_files on its own, over arbitrary FileItem records

TempPaths == (1..SmallTree) \X {"source", "encoded"}
\* per-item values that are v beyond the first SmallTree items
Upto(S, v) == {f \in [Items -> S \cup {v}] : \A i \in Items : i > SmallTree => f[i] = v}

\* all_files holds any records: each temp path set or not, its file on disk
\* or not, inside TEMP_DIRECTORY or not, removable or not
SweepInit ==
    /\ numFiles = SmallTree
    /\ delete_zeros = FALSE /\ delete_errors = FALSE
    /\ missing = "none"
    /\ num_ffmpeg_workers = NUM_FFMPEG_WORKERS
    /\ tree_codecs = Codecs
    /\ outside \in SUBSET TempPaths
    /\ unremovable \in SUBSET (TempPaths \ outside)
    /\ status = [i \in Items |-> "pending"]
    /\ status_message = [i \in Items |-> ""]
    /\ encoded_size = [i \in Items |-> None]
    /\ input_codec = [i \in Items |-> NoCodec]
    /\ qsv_input_codec = [i \in Items |-> None]
    /\ use_cpu_decode = [i \in Items |-> FALSE]
    /\ error_details = [i \in Items |-> ""]
    /\ temp_source_path \in Upto(BOOLEAN, FALSE)
    /\ temp_encoded_path \in Upto(BOOLEAN, FALSE)
    /\ encoding_start_time = [i \in Items |-> FALSE]
    /\ orig = [i \in Items |-> IF i <= numFiles THEN "source" ELSE "absent"]
    /\ tsrc \in Upto({"source"}, "absent")
    /\ tenc \in Upto({"encoded"}, "absent")
    /\ discovered = 1..SmallTree
    /\ original_size = [i \in Items |-> IF i <= SmallTree THEN Some(1) ELSE None]
    /\ all_files \in SUBSET (1..SmallTree)
    /\ pending_files_queue = <<>>
    /\ preparing_files_list = <<>>
    /\ ready_for_encode_queue = <<>>
    /\ encoding_files_list = <<>>
    /\ stop_event = TRUE
    /\ scanPc = "done"
    /\ prepPc = "done" /\ prepItem = 0 /\ codec = NoCodec
    /\ encPc = "done" /\ encItem = 0 /\ process = "none" /\ return_code = 0
    /\ timed_out = FALSE
    /\ app_stop_event_detected_in_poll = FALSE
    /\ user_initiated_cancel_detected_in_poll = FALSE
    /\ final_status_is_user_cancelled = FALSE
    /\ elapsed = FALSE
    /\ ffmpeg_command_list = <<>>
    /\ uiPc = "sweep"
    /\ ui_lock_holder = "none"
    /\ cancelAt = [i \in Items |-> "never"]
    /\ cancelProc = [i \in Items |-> "never"]
    /\ probed = [i \in Items |-> "never"]
    /\ enqueues = [i \in Items |-> 0]
    /\ dequeues = [i \in Items |-> 0]
    /\ stagings = [i \in Items |-> 0]
    /\ faults = 0
    /\ cancels = 0
    /\ JobUnstarted

\* cleanup_all_temp_files called a second time
cleanup_again ==
    /\ uiPc = "exited"
    /\ tsrc' = SweptSource(tsrc)
    /\ tenc' = SweptEncoded(tenc)
    /\ uiPc' = "swept twice"
    /\ UNCHANGED <<jobVars, cfgVars, envVars, itemVars, orig, listVars, scanVars, prepVars,
                   encVars, histVars, stop_event, ui_lock_holder>>

SweepNext == cleanup_all_temp_files \/ cleanup_again

SweepSpec == SweepInit /\ [][SweepNext]_vars

\* =========================================================================
\* Properties
\* =========================================================================

InPending(i) == Contains(pending_files_queue, i)
InPreparing(i) == Contains(preparing_files_list, i)
InReady(i) == Contains(ready_for_encode_queue, i)
InEncoding(i) == Contains(encoding_files_list, i)
InNoList(i) == ~InPending(i) /\ ~InPreparing(i) /\ ~InReady(i) /\ ~InEncoding(i)
HasTempFile(i) == tsrc[i] # "absent" \/ tenc[i] # "absent"

\* C1: an item is in at most one of the pending queue, the preparing list,
\* the ready queue and the encoding list, and at most once in it.
C1_OneOwner ==
    \A i \in Items :
        Count(pending_files_queue, i) + Count(preparing_files_list, i)
          + Count(ready_for_encode_queue, i) + Count(encoding_files_list, i) <= 1

\* Three items held by the three stages at once, after a cancel key
C1_Witness ==
    /\ Len(encoding_files_list) = 1
    /\ Len(ready_for_encode_queue) = 1
    /\ Len(preparing_files_list) = 1
    /\ cancels > 0

\* C2: a terminal status never changes again and a terminal item is never
\* put back into the pending or the ready queue.
C2_TerminalIsFinal ==
    [][\A i \in Items :
          status[i] \in TerminalStatuses =>
              /\ status'[i] = status[i]
              /\ Contains(pending_files_queue', i) => InPending(i)
              /\ Contains(ready_for_encode_queue', i) => InReady(i)]_vars

\* The status set and the edges of the specified state machine
SpecStatuses ==
    {"pending", "checking", "transferring_to_temp", "ready", "encoding"}
        \cup TerminalStatuses
SpecEdges ==
    {<<"pending", "checking">>,
     <<"checking", "skipped">>, <<"checking", "error">>,
     <<"checking", "transferring_to_temp">>,
     <<"transferring_to_temp", "ready">>, <<"transferring_to_temp", "error">>,
     <<"ready", "encoding">>,
     <<"encoding", "success">>, <<"encoding", "error">>}
        \cup {<<st, "cancelled">> : st \in SpecStatuses \ TerminalStatuses}
\* What the script has besides: the moving-back status and a probe failure
\* that deletes the original
CodeStatuses == SpecStatuses \cup {"transferring_to_source"}
CodeEdges ==
    SpecEdges \cup
    {<<"checking", "deleted_error">>,
     <<"encoding", "transferring_to_source">>,
     <<"transferring_to_source", "success">>,
     <<"transferring_to_source", "error">>,
     <<"transferring_to_source", "cancelled">>}

StatusStepsWithin(statuses, edges) ==
    \A i \in discovered :
        status'[i] # status[i] =>
            /\ status'[i] \in statuses
            /\ status[i] \notin TerminalStatuses => <<status[i], status'[i]>> \in edges

\* C3 as stated: every status is one of the specified ones and every change
\* of a non-terminal status follows a specified edge.
C3_SpecStateMachine == [][StatusStepsWithin(SpecStatuses, SpecEdges)]_vars

\* C3 as amended: the same with the status transferring_to_source between
\* encoding and success (or error, or cancelled) and the edge from checking
\* to deleted_error.
C3_CodeStateMachine == [][StatusStepsWithin(CodeStatuses, CodeEdges)]_vars

\* An item is being moved back while another failed its probe and was deleted
C3_Witness ==
    \E i, j \in Items :
        status[i] = "transferring_to_source" /\ status[j] = "deleted_error"

\* C4: an item the UI cancelled while checking or transferring_to_temp is
\* never in the ready queue or the encoding list afterwards.
C4_CancelledInStagingNeverStaged ==
    \A i \in Items :
        cancelAt[i] \in {"checking", "transferring_to_temp"} =>
            ~InReady(i) /\ ~InEncoding(i)

\* An item cancelled during its copy, which the preparer has since let go
C4_Witness ==
    \E i \in Items :
        /\ cancelAt[i] = "transferring_to_temp"
        /\ temp_source_path[i]
        /\ prepItem # i

\* C5 (its clause "never success"): an item whose process ran past the
\* timeout does not end in success.
C5_OverrunNeverSucceeds ==
    (encPc = "finally" /\ elapsed) => status[encItem] # "success"

\* C6: a successful item has encoded_size > 0, the transcoded output at its
\* original path and no temp file left.
C6_SuccessIsComplete ==
    \A i \in Items :
        status[i] = "success" =>
            /\ encoded_size[i] # None
            /\ encoded_size[i][1] > 0
            /\ orig[i] \in {"encoded", "empty"}
            /\ ~HasTempFile(i)

\* C7: encoded_size is set exactly when the status is success.
C7_EncodedSizeIffSuccess ==
    \A i \in Items : (encoded_size[i] # None) <=> (status[i] = "success")

\* C8: once the shutdown has run its sweep and the stages have stopped, no
\* temp file an item refers to is on disk.
C8_NoTempAfterSweep ==
    (uiPc = "exited" /\ scanPc = "done" /\ prepPc = "done" /\ encPc = "done") =>
        \A i \in all_files :
            /\ temp_source_path[i] => tsrc[i] = "absent"
            /\ temp_encoded_path[i] => tenc[i] = "absent"

\* C9: before the final sweep, a terminal item that is in no queue or list
\* and that no worker is handling has no temp file.
C9_NoTempOnceReleased ==
    \A i \in Items :
        (/\ uiPc = "running"
         /\ status[i] \in TerminalStatuses
         /\ InNoList(i)
         /\ prepItem # i /\ encItem # i) => ~HasTempFile(i)

\* C10: items in staging plus items ready never exceed NUM_FILES_TO_PREPARE.
C10_PrepareCap ==
    Len(preparing_files_list) + Len(ready_for_encode_queue) <= NUM_FILES_TO_PREPARE

\* The cap binds: two items ready, more pending, the preparer waiting
C10_Witness ==
    /\ Len(ready_for_encode_queue) = NUM_FILES_TO_PREPARE
    /\ pending_files_queue # <<>>
    /\ prepPc = "loop"
    /\ ~stop_event


\* The transcode process of the encoder thread has been started and has not
\* exited
ProcessAlive == process \in {"running", "terminating", "killed"}
ProcessesAlive == IF ProcessAlive THEN 1 ELSE 0

C12_PendingOnce ==
    \A i \in Items : enqueues[i] <= 1 /\ dequeues[i] <= 1 /\ stagings[i] <= 1

\* Every file of a full tree has been queued, popped and staged once
C12_Witness ==
    /\ numFiles = NumItems
    /\ \A i \in 1..NumItems : enqueues[i] = 1 /\ dequeues[i] = 1 /\ stagings[i] = 1


\* C13: when stop_event is set while an item is encoding with its process
\* running, then (the process exiting once terminated) the item eventually
\* has a terminal status, is out of encoding_files_list, has no temp file
\* left and no process alive.
C13_ShutdownEndsTranscode ==
    \A i \in Items :
        (stop_event /\ encItem = i /\ status[i] = "encoding" /\ process = "running")
        ~> (/\ status[i] \in TerminalStatuses
            /\ ~InEncoding(i)
            /\ ~HasTempFile(i)
            /\ ~(encItem = i /\ ProcessAlive))

\* The poll loop saw stop_event, the item was marked interrupted and released
C13_Witness ==
    \E i \in Items :
        /\ stop_event
        /\ status[i] = "error" /\ status_message[i] = "Interrupted (app exit)"
        /\ ~InEncoding(i) /\ ~HasTempFile(i)
        /\ encItem # i


\* No stage is working on the item
Released(i) == prepItem # i /\ encItem # i

\* C14: the file at an item's original_path changes only by the deletion of
\* a zero-byte file under --delete-zeros, by the deletion after a failed
\* probe under --delete-errors, or by the item's own move-back; an item that
\* ends skipped, cancelled or error (not through an exception, which is how
\* a failed move-back ends) has its original file unchanged.
C14_OriginalsOnlyByCommitOrDelete ==
    /\ [][\A i \in Items :
            orig'[i] # orig[i] =>
                \/ /\ delete_zeros /\ scanPc = "walk"
                   /\ orig'[i] = "absent" /\ status'[i] = "deleted_zero"
                \/ /\ delete_errors /\ prepItem = i /\ codec = NoCodec
                   /\ orig'[i] = "absent" /\ status'[i] = "deleted_error"
                \/ /\ encItem = i /\ encPc = "move"
                   /\ return_code = 0 /\ ~timed_out]_vars
    /\ [](\A i \in discovered :
            (/\ Released(i)
             /\ status[i] \in {"skipped", "cancelled", "error"}
             /\ status_message[i] # "Processing exception") => orig[i] = "source")

\* An item cancelled while its transcode was running has been released with
\* its original file as it was
C14_Witness ==
    \E i \in Items :
        /\ cancelAt[i] = "encoding" /\ status[i] = "cancelled"
        /\ Released(i) /\ ~HasTempFile(i)
        /\ orig[i] = "source"


\* C15: when the transcode process has exited with a non-zero code and the
\* item was not cancelled, not timed out, not interrupted by shutdown and
\* not cut short by an exception in the worker, the encoder lets go of the
\* item with status error, the process output kept in error_details, no
\* temp file left and the original file unchanged.
C15_FailedTranscode ==
    (/\ encPc = "finally" /\ process = "exited"
     /\ return_code # 0
     /\ cancelAt[encItem] = "never"
     /\ ~timed_out
     /\ ~app_stop_event_detected_in_poll
     /\ status_message[encItem] # "Processing exception") =>
        /\ status[encItem] = "error"
        /\ status_message[encItem] = "FFmpeg failed"
        /\ error_details[encItem] = "FFmpeg Error (code, stderr or stdout)"
        /\ ~HasTempFile(encItem)
        /\ orig[encItem] = "source"

\* The process failed by itself, leaving a partial output, and the encoder
\* has cleaned up
C15_Witness ==
    /\ encPc = "finally" /\ process = "exited"
    /\ return_code = 1
    /\ cancelAt[encItem] = "never" /\ ~stop_event /\ ~elapsed
    /\ status[encItem] = "error"
    /\ temp_source_path[encItem] /\ temp_encoded_path[encItem]


\* The item was never given a temp file and never handed to the encoder
NeverStaged(i) ==
    /\ ~temp_source_path[i] /\ ~temp_encoded_path[i]
    /\ ~HasTempFile(i)
    /\ ~InReady(i) /\ ~InEncoding(i)
    /\ status[i] \notin {"transferring_to_temp", "ready", "encoding",
                         "transferring_to_source", "success"}

\* C16: an item whose probe returned no codec is never copied to temp and
\* never enters the ready queue; its original file is removed only under
\* --delete-errors, with status deleted_error; when the preparer lets go of
\* it (the user not having cancelled it) its status is deleted_error if the
\* original was removed and error, with the original unchanged, if not.
C16_ProbeFailure ==
    \A i \in Items :
        probed[i] = NoCodec =>
            /\ NeverStaged(i)
            /\ orig[i] \in {"source", "absent"}
            /\ orig[i] = "absent" => delete_errors /\ status[i] = "deleted_error"
            /\ (prepItem # i /\ cancelAt[i] = "never") =>
                   /\ status[i] = IF orig[i] = "absent" THEN "deleted_error" ELSE "error"
                   /\ error_details[i] # ""

\* Both endings of a failed probe: without --delete-errors the item is an
\* error with its file in place; with it, some run deletes the file
C16_Witness ==
    \E i \in Items :
        /\ probed[i] = NoCodec /\ prepItem # i /\ cancelAt[i] = "never"
        /\ \/ ~delete_errors /\ status[i] = "error" /\ orig[i] = "source"
           \/ delete_errors /\ status[i] = "deleted_error" /\ orig[i] = "absent"

\* C17: an item whose probe returned av1 never gets a temp file, never enters
\* the ready queue or encoding_files_list, keeps its original file, and is
\* skipped when the preparer lets go of it (the user not having cancelled it).
C17_AlreadyAv1 ==
    \A i \in Items :
        probed[i] = "av1" =>
            /\ NeverStaged(i)
            /\ orig[i] = "source"
            /\ (prepItem # i /\ cancelAt[i] = "never") =>
                   status[i] = "skipped" /\ status_message[i] = "Already AV1"

\* An av1 file has been skipped and the preparer has moved on
C17_Witness ==
    \E i \in Items :
        /\ probed[i] = "av1" /\ prepItem # i
        /\ status[i] = "skipped" /\ orig[i] = "source"
        /\ InNoList(i)


\* The file at a temp path of an item
FileAt(p) == IF p[2] = "source" THEN tsrc[p[1]] ELSE tenc[p[1]]

\* C18: a second run of cleanup_all_temp_files leaves the disk as the first
\* run left it, no run changes a FileItem field or an original file, and a
\* file whose path is not in TEMP_DIRECTORY is never removed, whatever temp
\* paths the records hold.
C18_SweepIdempotent ==
    /\ [](/\ SweptSource(SweptSource(tsrc)) = SweptSource(tsrc)
          /\ SweptEncoded(SweptEncoded(tenc)) = SweptEncoded(tenc))
    /\ [][/\ UNCHANGED <<itemVars, orig>>
          /\ uiPc = "exited" => UNCHANGED <<tsrc, tenc>>
          /\ \A p \in outside :
                 (IF p[2] = "source" THEN tsrc'[p[1]] ELSE tenc'[p[1]]) = FileAt(p)
         ]_vars

\* After two sweeps a recorded file outside TEMP_DIRECTORY is still there
\* and a recorded, removable path inside it has no file
C18_Witness ==
    /\ uiPc = "swept twice"
    /\ \E i \in all_files :
          /\ temp_source_path[i] /\ <<i, "source">> \in outside
          /\ tsrc[i] # "absent"
    /\ \E j \in all_files :
          /\ temp_encoded_path[j]
          /\ <<j, "encoded">> \notin outside \cup unremovable
          /\ tenc[j] = "absent"


\* C19: as long as shutdown is not requested, every file the scanner has met
\* reaches a terminal status, and the preparer and encoder loops do not end;
\* a file that failed leaves the caps free for the files after it.
C19_EveryItemEnds ==
    /\ \A i \in Items :
          (i \in discovered) ~> (status[i] \in TerminalStatuses \/ stop_event)
    /\ [](~stop_event /\ uiPc = "running" =>
              /\ prepPc \notin {"unstarted", "done"}
              /\ encPc \notin {"unstarted", "done"})

\* A transcode failed and the file queued behind it was still transcoded
C19_Witness ==
    \E i \in Items, j \in Items :
        /\ i < j /\ ~stop_event
        /\ status[i] = "error" /\ status_message[i] = "FFmpeg failed"
        /\ status[j] = "success"
        /\ encPc = "loop" /\ encoding_files_list = <<>>


\* C20: when TEMP_DIRECTORY cannot be written or ffprobe or ffmpeg is not
\* installed, the run ends before a stage has worked on an item: no item is
\* marked error or deleted after a probe, and no item is copied to temp.
C20_AbortsBeforeAnyStage ==
    missing # "none" =>
        \A i \in Items :
            /\ ~(probed[i] # "never" /\ status[i] \in {"error", "deleted_error"})
            /\ ~HasTempFile(i)


\* C21: once stop_event is set, the scanner, the preparer and the encoder
\* each leave their loop, whatever they were doing and also when the source
\* tree is empty; with an empty source tree no temp file is ever created.
C21_StopEndsThreads ==
    /\ stop_event ~> scanPc = "done"
    /\ stop_event ~> prepPc = "done"
    /\ stop_event ~> encPc = "done"
    /\ [](numFiles = 0 => \A i \in Items : ~HasTempFile(i) /\ ~temp_source_path[i])

\* The three threads have ended after a shutdown that interrupted a transcode
C21_Witness ==
    /\ stop_event
    /\ scanPc = "done" /\ prepPc = "done" /\ encPc = "done"
    /\ \E i \in Items : status_message[i] = "Interrupted (app exit)"


\* C22 as stated: when the poll loop has seen the shutdown the item ends in
\* error as interrupted, cancelled by the user or not; when it has seen the
\* cancellation the item ends cancelled.
C22_ShutdownBeatsCancel ==
    encPc = "finally" =>
        /\ app_stop_event_detected_in_poll =>
               /\ status[encItem] = "error"
               /\ status_message[encItem] = "Interrupted (app exit)"
        /\ user_initiated_cancel_detected_in_poll => status[encItem] = "cancelled"

\* C22, amended: the pass of the poll loop that ends it records the shutdown
\* if stop_event is set, else the cancellation if the item is cancelled, else
\* the timeout; an item stopped for the shutdown ends in error as interrupted
\* unless the user had cancelled it while it was encoding, and then it ends
\* cancelled; an item stopped for its cancellation ends cancelled, the
\* timeout expired or not.
C22_PollPriority ==
    /\ [][(encPc = "poll" /\ encPc' = "wait") =>
             /\ app_stop_event_detected_in_poll' = stop_event
             /\ user_initiated_cancel_detected_in_poll' =
                    (~stop_event /\ IsCancelled(encItem))
             /\ timed_out' = (~stop_event /\ ~IsCancelled(encItem) /\ elapsed)
         ]_vars
    /\ [](encPc = "finally" =>
             /\ app_stop_event_detected_in_poll =>
                    /\ cancelAt[encItem] = "never" =>
                           /\ status[encItem] = "error"
                           /\ status_message[encItem] = "Interrupted (app exit)"
                    /\ cancelAt[encItem] = "encoding" =>
                           status[encItem] = "cancelled"
             /\ user_initiated_cancel_detected_in_poll =>
                    status[encItem] = "cancelled")

\* The user cancelled the item, then quit, before the poll loop came round:
\* the loop saw the shutdown and the item ended cancelled
C22_Witness ==
    /\ encPc = "finally"
    /\ app_stop_event_detected_in_poll
    /\ cancelAt[encItem] = "encoding"
    /\ status[encItem] = "cancelled"


\* C23: a running transcode process that is stopped is sent terminate()
\* first, a kill is sent only to a process that was sent terminate() and has
\* not exited, and an item leaves encoding_files_list only once its process
\* has exited.
C23_GracefulStopThenRelease ==
    [][/\ (process = "running" /\ process' \notin {"running", "exited"}) =>
              process' = "terminating"
       /\ (process # "killed" /\ process' = "killed") => process = "terminating"
       /\ \A i \in Items :
              (InEncoding(i) /\ ~Contains(encoding_files_list', i)) => ~ProcessAlive
      ]_vars


\* C24: when the process has exited with code 0 (the item not cancelled, not
\* timed out, not interrupted) and its output file is missing or has zero
\* bytes, the encoder marks the item error, "Output missing"; the original
\* is never replaced by an empty file, and no item is a success with an
\* output of zero bytes.
C24_NoOutputIsError ==
    /\ [][(/\ encPc = "resolve" /\ encPc' # "resolve" /\ return_code = 0
           /\ ~timed_out /\ ~final_status_is_user_cancelled
           /\ ~app_stop_event_detected_in_poll
           /\ tenc[encItem] \in {"absent", "empty"}) =>
              /\ status'[encItem] = "error"
              /\ status_message'[encItem] = "Output missing"
         ]_vars
    /\ [](\A i \in Items :
              /\ orig[i] # "empty"
              /\ ~(status[i] = "success" /\ encoded_size[i] = Some(0)))


\* C25: an item is in preparing_files_list only while the preparer is at
\* work on it and in encoding_files_list only while the encoder is at work
\* on it; once both threads have ended both lists are empty.
C25_InFlightOnlyWhileWorked ==
    /\ \A i \in Items :
          /\ InPreparing(i) => prepItem = i /\ prepPc # "done"
          /\ InEncoding(i) => encItem = i /\ encPc # "done"
    /\ (prepPc = "done" /\ encPc = "done") =>
          preparing_files_list = <<>> /\ encoding_files_list = <<>>


\* C26: when the encoder takes an item off encoding_files_list, whatever the
\* outcome, the item's encoding_start_time is None and neither its temp
\* source nor its temp output is on disk; every item outside
\* encoding_files_list has encoding_start_time None.
C26_ReleasedClean ==
    /\ encPc = "finally" =>
          /\ ~encoding_start_time[encItem]
          /\ tsrc[encItem] = "absent"
          /\ tenc[encItem] = "absent"
    /\ \A i \in Items : ~InEncoding(i) => ~encoding_start_time[i]

\* The encoder is about to release an item whose transcode it had started
C26_Witness ==
    /\ encPc = "finally"
    /\ InEncoding(encItem)
    /\ temp_encoded_path[encItem]
    /\ status[encItem] = "error"


\* C27: at most NUM_FILES_TO_PREPARE + NUM_FFMPEG_WORKERS items have a temp
\* source file on disk, whatever the user cancels.
C27_TempSourcesWithinCaps ==
    Cardinality({i \in Items : tsrc[i] # "absent"})
        <= NUM_FILES_TO_PREPARE + NUM_FFMPEG_WORKERS


\* C28: no thread is inside a `with ui_lock:` block while it runs the probe,
\* copies a file, starts or waits for the transcode process, or sleeps.
C28_LockNotHeldWhileBlocked ==
    /\ ui_lock_holder = "preparer" => prepPc \notin {"probe", "copy", "copying"}
    /\ ui_lock_holder = "encoder" =>
           /\ encPc \notin {"spawn", "poll", "wait", "except_wait", "idle_sleep"}
           /\ ~ProcessAlive


C30_TwoAtOnce ==
    (/\ num_ffmpeg_workers >= 2
     /\ Len(ready_for_encode_queue) >= 2
     /\ ~stop_event /\ cancels = 0 /\ faults = 0)
        ~> \/ stop_event \/ cancels > 0 \/ faults > 0
           \/ Cardinality({i \in Items : status[i] = "encoding"}) >= 2


\* The items of a list, and a list in ascending order of original_path with
\* no item twice
Elements(q) == {q[k] : k \in 1..Len(q)}
IsAscending(q) == \A k \in 1..(Len(q) - 1) : q[k] < q[k + 1]

\* C31: the step that completes the walk leaves in pending_files_queue
\* exactly the items whose status is pending, each once, in ascending order
\* of original_path; afterwards the queue changes only by the preparer
\* popping its head, so the items are dequeued in that order.
C31_SortedFifo ==
    [][/\ (/\ scanPc = "walk" /\ scanPc' = "done"
           /\ (~stop_event \/ pending_files_queue' # pending_files_queue)) =>
              /\ IsAscending(pending_files_queue')
              /\ Elements(pending_files_queue') =
                     {i \in discovered' : status'[i] = "pending"}
       /\ (scanPc = "done" /\ pending_files_queue' # pending_files_queue) =>
              /\ pending_files_queue # <<>>
              /\ pending_files_queue' = Tail(pending_files_queue)
       /\ dequeues' # dequeues =>
              /\ pending_files_queue # <<>>
              /\ pending_files_queue' = Tail(pending_files_queue)
              /\ dequeues' = [dequeues EXCEPT ![Head(pending_files_queue)] = @ + 1]
      ]_vars

\* Of a tree of three files the first two have been dequeued, in order
C31_Witness ==
    /\ numFiles = NumItems /\ scanPc = "done"
    /\ dequeues[1] = 1 /\ dequeues[2] = 1 /\ dequeues[3] = 0
    /\ pending_files_queue = <<3>>


\* The probe found a codec to transcode that qsv_decoder_map does not list
Unmapped(c) == c \notin {"av1", NoCodec} /\ c \notin DOMAIN qsv_decoder_map

\* C32: the preparer's step after the probe never marks an item error
\* because of its codec: the item is flagged use_cpu_decode exactly when the
\* map has no decoder for it and, unless it was cancelled, becomes
\* transferring_to_temp; after a copy that succeeded it becomes ready; and
\* the command built for it takes the CPU-decode form exactly when the codec
\* is not in the map, the native decoder of the map otherwise.
C32_UnmappedCodecFallsBack ==
    [][/\ (prepPc = "decide" /\ prepPc' # "decide" /\ codec \notin {"av1", NoCodec}) =>
              /\ use_cpu_decode'[prepItem] = Unmapped(codec)
              /\ status'[prepItem] # "error"
              /\ ~IsCancelled(prepItem) => status'[prepItem] = "transferring_to_temp"
       /\ (prepPc = "copied" /\ prepPc' # "copied" /\ ~IsCancelled(prepItem)) =>
              status'[prepItem] = "ready"
       /\ (encPc = "spawn" /\ encPc' # "spawn") =>
              ffmpeg_command_list' =
                  IF Unmapped(probed[encItem])
                  THEN <<"-hwaccel", "qsv", "-hwaccel_output_format", "qsv", "-i">>
                  ELSE <<"-hwaccel", "qsv", "-qsv_device", "-c:v",
                         qsv_decoder_map[probed[encItem]], "-i">>
      ]_vars

\* A vp8 file was staged and its transcode runs on the CPU-decode command
C32_Witness ==
    /\ encPc = "poll" /\ process = "running"
    /\ probed[encItem] = "vp8" /\ use_cpu_decode[encItem]
    /\ status[encItem] = "encoding"
    /\ ffmpeg_command_list = <<"-hwaccel", "qsv", "-hwaccel_output_format", "qsv", "-i">>


\* The scanner found the file readable and of zero bytes
ZeroLength(i) == original_size[i] = Some(0) /\ status_message[i] # "Access error"

\* C33: with delete_zeros set, a file of zero bytes is removed by the
\* scanner and its item is deleted_zero, or error with the file left in
\* place when the removal failed; the item is never appended to
\* pending_files_queue and never probed, copied or transcoded.  With
\* delete_zeros not set, no step of the scanner removes a file.
C33_ZeroLengthFiles ==
    /\ [](delete_zeros =>
            \A i \in Items : ZeroLength(i) =>
                /\ \/ status[i] = "deleted_zero" /\ orig[i] = "absent"
                   \/ status[i] = "error" /\ orig[i] = "source"
                /\ enqueues[i] = 0 /\ dequeues[i] = 0 /\ stagings[i] = 0
                /\ ~InPending(i)
                /\ probed[i] = "never"
                /\ NeverStaged(i))
    /\ [][(~delete_zeros /\ discovered' # discovered) => orig' = orig]_vars

\* A zero-byte file was removed by the scanner while another file of the
\* tree went on to the staging stage
C33_Witness ==
    /\ delete_zeros /\ scanPc = "done"
    /\ \E i \in Items : ZeroLength(i) /\ status[i] = "deleted_zero" /\ orig[i] = "absent"
    /\ \E i \in Items : enqueues[i] = 1 /\ probed[i] # "never"


\* C34: once stop_event is set while the scanner is still in its walk, no
\* later step puts an item in pending_files_queue.
C34_StopBeforeWalkEnds ==
    [][(stop_event /\ scanPc = "walk") => pending_files_queue' = <<>>]_vars


\* C35: once stop_event is set, the three workers have exited and the final
\* sweep is done, every item the scanner found has a terminal status.
C35_AllTerminalAfterShutdown ==
    (/\ stop_event /\ uiPc = "exited"
     /\ scanPc = "done" /\ prepPc = "done" /\ encPc = "done") =>
        \A i \in discovered : status[i] \in TerminalStatuses


\* C36: every item of ready_for_encode_queue has status ready, every item
\* of pending_files_queue has status pending or cancelled, every item with
\* status checking or transferring_to_temp is in preparing_files_list and
\* every item with status encoding is in encoding_files_list.
C36_StatusMatchesMembership ==
    \A i \in Items :
        /\ InReady(i) => status[i] = "ready"
        /\ InPending(i) => status[i] \in {"pending", "cancelled"}
        /\ status[i] \in {"checking", "transferring_to_temp"} => InPreparing(i)
        /\ status[i] = "encoding" => InEncoding(i)


\* One item is encoding, one is being checked and one was cancelled while
\* it waited in pending_files_queue
C36_Witness ==
    /\ \E i \in Items : status[i] = "encoding" /\ InEncoding(i)
    /\ \E i \in Items : status[i] = "checking" /\ InPreparing(i)
    /\ \E i \in Items : status[i] = "cancelled" /\ InPending(i)


\* C37: after the UI has set the status of an item that was encoding to
\* cancelled, no step changes the file at its original_path or makes its
\* status success.
C37_CancelStopsCommit ==
    [][\A i \in Items :
          cancelAt[i] = "encoding" => orig'[i] = orig[i] /\ status'[i] # "success"]_vars


\* =========================================================================
\* ---- the command-channel variant, ffmpeg/av1_enc/av1_enc.py: its steps

\* update_ui: a file_update for the file is put on ui_queue
update_ui(f, status_msg) == ui_queue' = [ui_queue EXCEPT ![f] = status_msg]

\* a failure is charged to the environment's budget
JobCharge(isFault) ==
    /\ isFault => jobFaults < MaxJobFaults
    /\ jobFaults' = IF isFault THEN jobFaults + 1 ELSE jobFaults

\* a future the main loop finds done()
Finished(f) == future_state[f] \in {"done", "raised", "cancelled"}

\* ---- main_logic_with_curses

\* The scan of SOURCE_DIRECTORY finds n files; each gets an item with status
\* 'Waiting...' and a place in waiting_files_paths, display_ui is started and
\* the processing loop entered.  With no file the function sets the shutdown
\* event and returns.
JobScan(n) ==
    /\ mainPc = "unstarted"
    /\ IF n = 0
       THEN /\ mainPc' = "no files"
            /\ overall_shutdown_event' = TRUE
            /\ UNCHANGED <<waiting_files_paths, file_status_display, original_file>>
       ELSE /\ mainPc' = "commands"
            /\ waiting_files_paths' = [k \in 1..n |-> k]
            /\ file_status_display' =
                 [f \in JobFiles |-> IF f <= n THEN "Waiting..." ELSE "absent"]
            /\ original_file' =
                 [f \in JobFiles |-> IF f <= n THEN "source" ELSE "absent"]
            /\ UNCHANGED overall_shutdown_event
    /\ UNCHANGED <<qsvVars, jobFaults, submitted_futures, currently_running,
                   current_max_jobs, command_queue, active_processes_info,
                   cancel_event, future_state, ui_queue, marked_files_ids,
                   workerPc, was_cancelled, encode_successful, ffmpeg_process,
                   temp_source_file, temp_av1_output_file, jobHist, keys>>

\* one command taken from command_queue: kill sets the event of each file id
\* that is registered, set_max_jobs stores a positive value
MainCommand ==
    /\ mainPc = "commands"
    /\ command_queue # <<>>
    /\ LET command == Head(command_queue) IN
         /\ command_queue' = Tail(command_queue)
         /\ IF command.command = "kill"
            THEN /\ cancel_event' =
                      [f \in JobFiles |->
                         \/ cancel_event[f]
                         \/ f \in command.file_ids \cap active_processes_info]
                 /\ killedWhileActive' =
                      killedWhileActive
                        \cup (command.file_ids \cap active_processes_info)
                 /\ UNCHANGED current_max_jobs
            ELSE /\ current_max_jobs' =
                      IF command.value > 0 THEN command.value
                      ELSE current_max_jobs
                 /\ UNCHANGED <<cancel_event, killedWhileActive>>
    /\ UNCHANGED <<qsvVars, jobFaults, mainVars, overall_shutdown_event,
                   active_processes_info, future_state, file_status_display,
                   ui_queue, marked_files_ids, workerVars, unstartedAtQuit,
                   keys>>

\* command_queue is empty: currently_running = len(active_processes_info)
MainCount ==
    /\ mainPc = "commands"
    /\ command_queue = <<>>
    /\ currently_running' = Cardinality(active_processes_info)
    /\ mainPc' = "schedule"
    /\ UNCHANGED <<qsvVars, jobFaults, waiting_files_paths, submitted_futures,
                   current_max_jobs, command_queue, overall_shutdown_event,
                   active_processes_info, cancel_event, future_state,
                   file_status_display, ui_queue, marked_files_ids,
                   workerVars, jobHist, keys>>

\* the condition of the scheduling loop
MaySubmit ==
    /\ currently_running < current_max_jobs
    /\ waiting_files_paths # <<>>
    /\ ~overall_shutdown_event

\* one round of the scheduling loop: the first waiting file becomes Queued
\* and is handed to the executor, and currently_running is read again
MainSubmit ==
    /\ mainPc = "schedule"
    /\ MaySubmit
    /\ LET next_file_id == Head(waiting_files_paths) IN
         /\ waiting_files_paths' = Tail(waiting_files_paths)
         /\ file_status_display' =
              [file_status_display EXCEPT ![next_file_id] = "Queued"]
         /\ update_ui(next_file_id, "Queued")
         /\ future_state' = [future_state EXCEPT ![next_file_id] = "pending"]
         /\ submitted_futures' = submitted_futures \cup {next_file_id}
    /\ currently_running' = Cardinality(active_processes_info)
    /\ UNCHANGED <<qsvVars, jobFaults, mainPc, current_max_jobs, command_queue,
                   overall_shutdown_event, active_processes_info, cancel_event,
                   marked_files_ids, workerVars, jobHist, keys>>

MainScheduleEnd ==
    /\ mainPc = "schedule"
    /\ ~MaySubmit
    /\ mainPc' = "collect"
    /\ UNCHANGED <<qsvVars, jobFaults, waiting_files_paths, submitted_futures,
                   currently_running, current_max_jobs, command_queue,
                   overall_shutdown_event, active_processes_info, cancel_event,
                   future_state, file_status_display, ui_queue,
                   marked_files_ids, workerVars, jobHist, keys>>

\* The end of a round of the processing loop.  The futures that are done
\* leave submitted_futures, and the item of a cancelled future or of one that
\* raised is made final unless it is already.  With the shutdown event set:
\* executor.shutdown(wait=False, cancel_futures=True) and
\* waiting_files_paths.clear().  Then the loop's condition is tested.
MainCollect ==
    /\ mainPc = "collect"
    /\ LET completed_futures == {f \in submitted_futures : Finished(f)}
           Marked(f) == /\ f \in completed_futures
                        /\ future_state[f] # "done"
                        /\ file_status_display[f] \notin FinalStatuses
           NewStatus(f) == IF future_state[f] = "cancelled"
                           THEN "Cancelled (Executor)" ELSE "Unexpected Error"
           left == submitted_futures \ completed_futures
           waiting == IF overall_shutdown_event THEN <<>>
                      ELSE waiting_files_paths
       IN /\ submitted_futures' = left
          /\ file_status_display' =
               [f \in JobFiles |-> IF Marked(f) THEN NewStatus(f)
                                   ELSE file_status_display[f]]
          /\ ui_queue' = [f \in JobFiles |-> IF Marked(f) THEN NewStatus(f)
                                             ELSE ui_queue[f]]
          /\ waiting_files_paths' = waiting
          /\ future_state' =
               [f \in JobFiles |->
                  IF overall_shutdown_event /\ future_state[f] = "pending"
                  THEN "cancelled" ELSE future_state[f]]
          /\ mainPc' = IF left # {} \/ waiting # <<>> \/ ~overall_shutdown_event
                       THEN "commands" ELSE "after loop"
    /\ UNCHANGED <<qsvVars, jobFaults, currently_running, current_max_jobs,
                   command_queue, overall_shutdown_event,
                   active_processes_info, cancel_event, marked_files_ids,
                   workerVars, jobHist, keys>>

\* after the loop: the executor's context is left once no worker runs, the
\* metrics are saved, the shutdown event is set and display_ui told to exit
MainFinish ==
    /\ mainPc = "after loop"
    /\ \A f \in JobFiles : future_state[f] # "running"
    /\ overall_shutdown_event' = TRUE
    /\ mainPc' = "finished"
    /\ UNCHANGED <<qsvVars, jobFaults, waiting_files_paths, submitted_futures,
                   currently_running, current_max_jobs, command_queue,
                   active_processes_info, cancel_event, future_state,
                   file_status_display, ui_queue, marked_files_ids,
                   workerVars, jobHist, keys>>

MainLogic ==
    \/ \E n \in 0..MaxJobFiles : JobScan(n)
    \/ MainCommand
    \/ MainCount
    \/ MainSubmit
    \/ MainScheduleEnd
    \/ MainCollect
    \/ MainFinish

\* ---- display_ui

\* display_ui is inside its `while not shutdown_event_ref.is_set()` loop
UiRunning ==
    /\ mainPc \notin {"unstarted", "no files"}
    /\ ~overall_shutdown_event

\* the file_updates on ui_queue are taken and applied to the files' items
UiTakeUpdates ==
    /\ UiRunning
    /\ \E f \in JobFiles : ui_queue[f] # "none"
    /\ file_status_display' =
         [f \in JobFiles |-> IF ui_queue[f] # "none" THEN ui_queue[f]
                             ELSE file_status_display[f]]
    /\ ui_queue' = [f \in JobFiles |-> "none"]
    /\ marked_files_ids' =
         marked_files_ids \ {f \in JobFiles : ui_queue[f] \in FinalStatuses}
    /\ UNCHANGED <<qsvVars, jobFaults, mainVars, current_max_jobs, command_queue,
                   overall_shutdown_event, active_processes_info, cancel_event,
                   future_state, workerVars, jobHist, keys>>

\* Q
UiQuit ==
    /\ UiRunning
    /\ overall_shutdown_event' = TRUE
    /\ unstartedAtQuit' = {f \in JobFiles : /\ file_status_display[f] # "absent"
                                            /\ future_state[f] \in {"none", "pending"}}
    /\ UNCHANGED <<qsvVars, jobFaults, mainVars, current_max_jobs, command_queue,
                   active_processes_info, cancel_event, future_state,
                   file_status_display, ui_queue, marked_files_ids,
                   workerVars, killedWhileActive, keys>>

\* SPACE on the item of file f
UiMark(f) ==
    /\ UiRunning
    /\ keys < MaxKeys
    /\ file_status_display[f] \notin FinalStatuses \cup {"absent"}
    /\ marked_files_ids' = IF f \in marked_files_ids
                           THEN marked_files_ids \ {f}
                           ELSE marked_files_ids \cup {f}
    /\ keys' = keys + 1
    /\ UNCHANGED <<qsvVars, jobFaults, mainVars, current_max_jobs, command_queue,
                   overall_shutdown_event, active_processes_info, cancel_event,
                   future_state, file_status_display, ui_queue, workerVars,
                   jobHist>>

\* a command is put on command_queue
PutCommand(c) ==
    /\ UiRunning
    /\ keys < MaxKeys
    /\ command_queue' = Append(command_queue, c)
    /\ keys' = keys + 1
    /\ UNCHANGED <<qsvVars, jobFaults, mainVars, current_max_jobs, overall_shutdown_event,
                   active_processes_info, cancel_event, future_state,
                   file_status_display, ui_queue, marked_files_ids,
                   workerVars, jobHist>>

\* K
UiKill ==
    /\ marked_files_ids # {}
    /\ PutCommand([command |-> "kill", file_ids |-> marked_files_ids, value |-> 0])

\* F5
UiDecrease ==
    /\ current_max_jobs >= 1
    /\ PutCommand([command |-> "set_max_jobs", file_ids |-> {},
                   value |-> IF current_max_jobs - 1 > 1
                             THEN current_max_jobs - 1 ELSE 1])

\* F6
UiIncrease ==
    /\ current_max_jobs < MaxJobsCap
    /\ PutCommand([command |-> "set_max_jobs", file_ids |-> {},
                   value |-> current_max_jobs + 1])

display_ui ==
    \/ UiTakeUpdates
    \/ UiQuit
    \/ \E f \in JobFiles : UiMark(f)
    \/ UiKill
    \/ UiDecrease
    \/ UiIncrease

\* ---- process_file, run by a thread of the executor

\* process_file returns: the future is done
Return(f) ==
    /\ future_state' = [future_state EXCEPT ![f] = "done"]
    /\ workerPc' = [workerPc EXCEPT ![f] = "done"]

GoTo(f, pc) == workerPc' = [workerPc EXCEPT ![f] = pc]

\* A thread of the executor takes the oldest pending work item and stats the
\* original file
WorkerStart(f, found) ==
    /\ future_state[f] = "pending"
    /\ \A g \in JobFiles : g < f => future_state[g] # "pending"
    /\ Cardinality({g \in JobFiles : future_state[g] = "running"})
         < MAX_CONCURRENT_JOBS
    /\ IF found
       THEN /\ update_ui(f, "Checking codec...")
            /\ future_state' = [future_state EXCEPT ![f] = "running"]
            /\ GoTo(f, "probe")
            /\ UNCHANGED original_file
       ELSE /\ original_file' = [original_file EXCEPT ![f] = "absent"]
            /\ update_ui(f, "Error")
            /\ Return(f)
    /\ JobCharge(~found)
    /\ UNCHANGED <<qsvVars, mainVars, current_max_jobs, command_queue,
                   overall_shutdown_event, active_processes_info, cancel_event,
                   file_status_display, marked_files_ids, was_cancelled,
                   encode_successful, ffmpeg_process, temp_source_file,
                   temp_av1_output_file, jobHist, keys>>

\* get_video_codec returns c
WorkerProbe(f, c) ==
    /\ workerPc[f] = "probe"
    /\ IF c = NoCodec \/ (c # "av1" /\ c \notin QSV_DECODER_MAP)
       THEN update_ui(f, "Error") /\ Return(f)
       ELSE IF c = "av1"
       THEN update_ui(f, "Skipped (already AV1)") /\ Return(f)
       ELSE /\ update_ui(f, "Copying to temp...")
            /\ GoTo(f, "copy")
            /\ UNCHANGED future_state
    /\ JobCharge(c \notin QSV_DECODER_MAP \cup {"av1"})
    /\ UNCHANGED <<qsvVars, mainVars, current_max_jobs, command_queue,
                   overall_shutdown_event, active_processes_info, cancel_event,
                   file_status_display, marked_files_ids, was_cancelled,
                   encode_successful, ffmpeg_process, temp_source_file,
                   temp_av1_output_file, original_file, jobHist, keys>>

\* shutil.copy2 to the temp source file, which succeeds or raises
WorkerCopy(f, copied) ==
    /\ workerPc[f] = "copy"
    /\ IF copied
       THEN /\ temp_source_file' = [temp_source_file EXCEPT ![f] = TRUE]
            /\ update_ui(f, "Encoding")
            /\ GoTo(f, "register")
            /\ UNCHANGED future_state
       ELSE /\ update_ui(f, "Error")
            /\ Return(f)
            /\ UNCHANGED temp_source_file
    /\ JobCharge(~copied)
    /\ UNCHANGED <<qsvVars, mainVars, current_max_jobs, command_queue,
                   overall_shutdown_event, active_processes_info, cancel_event,
                   file_status_display, marked_files_ids, was_cancelled,
                   encode_successful, ffmpeg_process, temp_av1_output_file,
                   original_file, jobHist, keys>>

\* active_processes_info[file_id] = {'cancel_event': cancel_event}
WorkerRegister(f) ==
    /\ workerPc[f] = "register"
    /\ active_processes_info' = active_processes_info \cup {f}
    /\ cancel_event' = [cancel_event EXCEPT ![f] = FALSE]
    /\ GoTo(f, "popen")
    /\ UNCHANGED <<qsvVars, jobFaults, mainVars, current_max_jobs, command_queue,
                   overall_shutdown_event, future_state, file_status_display,
                   ui_queue, marked_files_ids, was_cancelled,
                   encode_successful, ffmpeg_process, temp_source_file,
                   temp_av1_output_file, original_file, jobHist, keys>>

\* run_ffmpeg_encode: subprocess.Popen starts ffmpeg, or raises
\* FileNotFoundError, which leaves process_file through its finally block
WorkerPopen(f, started) ==
    /\ workerPc[f] = "popen"
    /\ IF started
       THEN /\ ffmpeg_process' = [ffmpeg_process EXCEPT ![f] = "running"]
            /\ GoTo(f, "poll")
       ELSE /\ GoTo(f, "finally raised")
            /\ UNCHANGED ffmpeg_process
    /\ JobCharge(~started)
    /\ UNCHANGED <<qsvVars, mainVars, current_max_jobs, command_queue,
                   overall_shutdown_event, active_processes_info, cancel_event,
                   future_state, file_status_display, ui_queue,
                   marked_files_ids, was_cancelled, encode_successful,
                   temp_source_file, temp_av1_output_file, original_file,
                   jobHist, keys>>

\* ffmpeg exits on its own, with or without an output file
FfmpegExit(f, code, written) ==
    /\ ffmpeg_process[f] = "running"
    /\ ffmpeg_process' = [ffmpeg_process EXCEPT ![f] = code]
    /\ temp_av1_output_file' = [temp_av1_output_file EXCEPT ![f] = written]
    /\ JobCharge(code # "exited 0" \/ ~written)
    /\ UNCHANGED <<qsvVars, mainVars, current_max_jobs, command_queue,
                   overall_shutdown_event, active_processes_info, cancel_event,
                   future_state, file_status_display, ui_queue,
                   marked_files_ids, workerPc, was_cancelled,
                   encode_successful, temp_source_file, original_file,
                   jobHist, keys>>

\* run_ffmpeg_encode after its poll loop: with the event set ffmpeg gets
\* SIGTERM, and SIGKILL if it has not exited within 5 seconds; the function
\* returns (returncode == 0 if not was_cancelled else False, _, was_cancelled)
WorkerPollEnd(f, obeys) ==
    /\ workerPc[f] = "poll"
    /\ ffmpeg_process[f] # "running" \/ cancel_event[f]
    /\ was_cancelled' = [was_cancelled EXCEPT ![f] = cancel_event[f]]
    /\ encode_successful' =
         [encode_successful EXCEPT
            ![f] = ~cancel_event[f] /\ ffmpeg_process[f] = "exited 0"]
    /\ IF cancel_event[f] /\ ffmpeg_process[f] = "running"
       THEN /\ ffmpeg_process' =
                 [ffmpeg_process EXCEPT
                    ![f] = IF obeys THEN "terminated" ELSE "killed"]
            /\ temp_av1_output_file' =
                 [temp_av1_output_file EXCEPT ![f] = TRUE]
       ELSE UNCHANGED <<ffmpeg_process, temp_av1_output_file>>
    /\ GoTo(f, "returned")
    /\ UNCHANGED <<qsvVars, jobFaults, mainVars, current_max_jobs, command_queue,
                   overall_shutdown_event, active_processes_info, cancel_event,
                   future_state, file_status_display, ui_queue,
                   marked_files_ids, temp_source_file, original_file,
                   jobHist, keys>>

\* process_file with the result of run_ffmpeg_encode
WorkerAfterEncode(f) ==
    /\ workerPc[f] = "returned"
    /\ IF was_cancelled[f]
       THEN update_ui(f, "Killed by user.") /\ GoTo(f, "finally")
       ELSE IF ~encode_successful[f] \/ ~temp_av1_output_file[f]
       THEN update_ui(f, "Error") /\ GoTo(f, "finally")
       ELSE update_ui(f, "Verifying AV1 output...") /\ GoTo(f, "verify")
    /\ UNCHANGED <<qsvVars, jobFaults, mainVars, current_max_jobs, command_queue,
                   overall_shutdown_event, active_processes_info, cancel_event,
                   future_state, file_status_display, marked_files_ids,
                   was_cancelled, encode_successful, ffmpeg_process,
                   temp_source_file, temp_av1_output_file, original_file,
                   jobHist, keys>>

\* get_video_codec on the output returns c
WorkerVerify(f, c) ==
    /\ workerPc[f] = "verify"
    /\ IF c # "av1"
       THEN update_ui(f, "Error") /\ GoTo(f, "finally")
       ELSE update_ui(f, "Finalizing...") /\ GoTo(f, "finalize")
    /\ JobCharge(c # "av1")
    /\ UNCHANGED <<qsvVars, mainVars, current_max_jobs, command_queue,
                   overall_shutdown_event, active_processes_info, cancel_event,
                   future_state, file_status_display, marked_files_ids,
                   was_cancelled, encode_successful, ffmpeg_process,
                   temp_source_file, temp_av1_output_file, original_file,
                   jobHist, keys>>

\* shutil has no replace, so the call raises and the fallback runs: the
\* original is unlinked, then shutil.move puts the output in its place or
\* raises
WorkerFinalize(f, moved) ==
    /\ workerPc[f] = "finalize"
    /\ IF moved
       THEN /\ original_file' = [original_file EXCEPT ![f] = "av1"]
            /\ temp_av1_output_file' =
                 [temp_av1_output_file EXCEPT ![f] = FALSE]
            /\ temp_source_file' = [temp_source_file EXCEPT ![f] = FALSE]
            /\ update_ui(f, "Done")
       ELSE /\ original_file' = [original_file EXCEPT ![f] = "absent"]
            /\ update_ui(f, "Error")
            /\ UNCHANGED <<temp_av1_output_file, temp_source_file>>
    /\ GoTo(f, "finally")
    /\ JobCharge(~moved)
    /\ UNCHANGED <<qsvVars, mainVars, current_max_jobs, command_queue,
                   overall_shutdown_event, active_processes_info, cancel_event,
                   future_state, file_status_display, marked_files_ids,
                   was_cancelled, encode_successful, ffmpeg_process,
                   jobHist, keys>>

\* the finally block: both temp files are unlinked and the file id is
\* popped from active_processes_info
WorkerFinally(f) ==
    /\ workerPc[f] \in {"finally", "finally raised"}
    /\ temp_source_file' = [temp_source_file EXCEPT ![f] = FALSE]
    /\ temp_av1_output_file' = [temp_av1_output_file EXCEPT ![f] = FALSE]
    /\ active_processes_info' = active_processes_info \ {f}
    /\ future_state' =
         [future_state EXCEPT
            ![f] = IF workerPc[f] = "finally" THEN "done" ELSE "raised"]
    /\ GoTo(f, "done")
    /\ UNCHANGED <<qsvVars, jobFaults, mainVars, current_max_jobs, command_queue,
                   overall_shutdown_event, cancel_event, file_status_display,
                   ui_queue, marked_files_ids, was_cancelled,
                   encode_successful, ffmpeg_process, original_file,
                   jobHist, keys>>

process_file ==
    \E f \in JobFiles :
       \/ \E found \in BOOLEAN : WorkerStart(f, found)
       \/ \E c \in JobCodecs : WorkerProbe(f, c)
       \/ \E copied \in BOOLEAN : WorkerCopy(f, copied)
       \/ WorkerRegister(f)
       \/ \E started \in BOOLEAN : WorkerPopen(f, started)
       \/ \E code \in {"exited 0", "exited 1"} :
            \E written \in BOOLEAN : FfmpegExit(f, code, written)
       \/ \E obeys \in BOOLEAN : WorkerPollEnd(f, obeys)
       \/ WorkerAfterEncode(f)
       \/ \E c \in {"av1", "h264"} : WorkerVerify(f, c)
       \/ \E moved \in BOOLEAN : WorkerFinalize(f, moved)
       \/ WorkerFinally(f)

JobNext == MainLogic \/ display_ui \/ process_file

\* The command-channel variant run on a tree of up to MaxJobFiles files
JobInit ==
    /\ InitWith(0, NUM_FFMPEG_WORKERS, Codecs)
    /\ ~delete_zeros /\ ~delete_errors
    /\ missing = "none"

JobSpec == JobInit /\ [][JobNext]_vars

\* what the last file_update put for the file says, taken by display_ui or not
Latest(f) == IF ui_queue[f] # "none" THEN ui_queue[f] ELSE file_status_display[f]

\* the files submitted to the executor and not finished
InFlight == {f \in JobFiles : future_state[f] \in {"pending", "running"}}

\* C38: in every state at most current_max_jobs files are submitted to the
\* executor and not finished, that is Queued or further and not final.
C38_AtMostMaxJobs == Cardinality(InFlight) <= current_max_jobs


\* C39: the original of a file whose kill command was processed while the
\* file was registered in active_processes_info is never replaced by the
\* transcode output.
C39_KilledNotReplaced ==
    \A f \in killedWhileActive : original_file[f] # "av1"


\* C40: when the run is over, no file that no worker had taken when Q was
\* pressed has been started, and the item of each of them is Cancelled.
C40_UnstartedEndCancelled ==
    mainPc = "finished" =>
      \A f \in unstartedAtQuit :
         /\ workerPc[f] = "idle"
         /\ file_status_display[f] \in CancelledStatuses

====
